---- MODULE Spec2Model ----
(***************************************************************************)
(* A model of go-gomail/gomail.                                            *)
(*                                                                         *)
(* SpecSmtp   : Dialer.Dial, smtpSender.Send and smtpSender.Close of       *)
(*              smtp.go, one client call per step, the server's answer to  *)
(*              every call chosen nondeterministically.                    *)
(* SpecSend   : send with one transmission per Bcc address, with           *)
(*              flattenHeader, getFrom, getRecipients, addAdress and       *)
(*              parseAddress, one call or return of the Sender per step.   *)
(* SpecMailer : the function Mailer.getSendMailFunc returns, in both of    *)
(*              its versions, one client call per step.                    *)
(* SpecDialAndSend  : Dialer.DialAndSend over the steps of SpecSmtp.       *)
(* SpecSendWriterTo : send with a single transmission per message.         *)
(* SpecSendParsed   : the two versions of send that parse addresses.       *)
(* SpecSendAll      : these and Mailer.Send, which does not parse.         *)
(* SpecWriteTo      : Message.WriteTo of writeto.go, one step of           *)
(*              writeMessage per step, every write to the sink and every   *)
(*              copier failing or not.                                     *)
(* SpecRender       : the rendering of a message with files, in the three  *)
(*              versions of addFiles, one file per step.                   *)
(* SpecBase64LineWriter, SpecQpLineWriter, SpecLineWriters : the Write of  *)
(*              base64LineWriter and of qpLineWriter on inputs cut into two*)
(*              Write calls.                                               *)
(* SpecConcurrentSend : send of send.go on two goroutines that share the   *)
(*              buffer pool of flattenHeader, one call per step.           *)
(* SpecMessageParts : the calls that build the part list of a Message.     *)
(* SpecMessage      : a Message of message.go built by its setters, with   *)
(*              the attachment and embedded slices as Go slices over       *)
(*              shared arrays, and Reset.                                  *)
(* SpecLoginAuth    : the Start and Next of loginAuth, in the versions of  *)
(*              login.go and auth.go, one server challenge per step.       *)
(*                                                                         *)
(* Strings that the code searches (strings.Contains) are sequences of      *)
(* one-character strings, so that a substring test is a real test.         *)
(***************************************************************************)
EXTENDS Integers, Sequences, FiniteSets, TLC

VARIABLES
    d,          \* the Dialer: SSL, Username, Auth, RetryFailure, LocalName
    pc,         \* position of the (single-threaded) caller
    caller,     \* who is running Dial: "user" or "Send" (the redial of a retry)
    conns,      \* every connection NetDialTimeout has returned, in order, and
                \* whether it is still open
    cur,        \* conn / c of the Dial in progress: its index in conns, whether
                \* the server offered STARTTLS on it, and its TLS state
                \* ("none", "ssl": wrapped by tlsClient, "starttls")
    sender,     \* the smtpSender the caller holds: its client / conn
    log,        \* the calls made on the transport, in order, by the invocation
                \* in progress: the caller's Dial, Send or Close, or the Send
                \* that Send makes of itself after a redial
    sendArgs,   \* from / to of the Send in progress
    idx,        \* loop index of "for _, addr := range to"
    mailErr,    \* err of the failed c.Mail while Send redials
    redials,    \* successful redials inside the top-level Send in progress
    sel,        \* what c.Extension("AUTH") has just answered: ok, the names the
                \* server lists and the parameter string made of them
    ret,        \* what the last call of the caller returned
    nDials,     \* user-level Dial calls so far
    nSends      \* user-level Send calls so far

smtpVars == <<d, pc, caller, conns, cur, sender, log, sendArgs, idx, mailErr,
              redials, sel, ret, nDials, nSends>>

VARIABLES
    header,     \* the exported message's header: the values of From, Sender,
                \* To, Cc and Bcc, each value a character sequence
    spc,        \* position of send
    sfrom,      \* from of send
    recipients, \* recipients of send
    bcc,        \* bcc of send
    bi,         \* index of "for _, to := range bcc"
    calls,      \* the calls of s.Send, in order: from, to, the header block of
                \* the mail and whether the call is running or how it returned
    sendErr     \* what send returned

sendVars == <<header, spc, sfrom, recipients, bcc, bi, calls, sendErr>>

VARIABLES
    mailer,     \* the Mailer: which getSendMailFunc it has, ssl, the auth and
                \* the from / to it passes to the function
    mpc,        \* position of the function getSendMailFunc returned
    mconn,      \* the connection of c: "none", "open" or "closed"
    mi,         \* index of "for _, addr := range to"
    mlog,       \* the calls made on c, in order
    mret        \* what the function returned

mailerVars == <<mailer, mpc, mconn, mi, mlog, mret>>

VARIABLES
    msgs,       \* the messages of DialAndSend(m...): for each the recipients
                \* send finds for it, or "bad" when getFrom or getRecipients
                \* fails on it
    sendI,      \* i + 1 of "for i, m := range msg" in Send: the message
                \* to come
    dasPc,      \* position of DialAndSend
    dasEvents,  \* what DialAndSend has done so far: the sends it started, each
                \* with the connection the sender held, and its Quit
    dasRet      \* what DialAndSend returned: the 1-based index the error
                \* names (0: none) and the error

dasVars == <<msgs, sendI, dasPc, dasEvents, dasRet>>

VARIABLES
    wMsg,       \* the message WriteTo renders: len(msg.parts),
                \* len(msg.attachments), len(msg.embedded) and msg.encoding
    wPc,        \* position of writeMessage
    wI,         \* index of the loop over parts or files writeMessage is in
    writers,    \* w.writers[0 .. w.depth-1]: for each multipart writer its
                \* kind and the write error its last part recorded
    partWriter, \* w.partWriter: "nil" or "part"
    wErr,       \* w.err
    wN,         \* w.n, counted in writes: every write is one unit of bytes
    sink,       \* what happened at w.w: whether a write to it has failed or
                \* a copier has returned an error, whether bytes reached
                \* it after that, and how many writes it took
    wTrace,     \* what writeMessage did so far, in order: the wrappers it
                \* opened and closed, the parts and files it wrote, each with
                \* the wrappers open at that moment
    wRet,       \* the error WriteTo returned
    wRetN       \* the count WriteTo returned

writeVars == <<wMsg, wPc, wI, writers, partWriter, wErr, wN, sink, wTrace,
               wRet, wRetN>>

VARIABLES
    rImpl,       \* which addFiles renders: "header" (writeto.go:112-144),
                 \* "contentID" (writeto.go:358-376) or "export" (part_004)
    files,       \* the File objects of the caller: Name, Header, ContentID
    embedded,    \* msg.embedded: the File objects, by their index in files
    attachments, \* msg.attachments, likewise
    rMaps,       \* the header maps: rMaps[1] is msg.header, rMaps[2] the map
                 \* newMessageWriter makes; each the set of its fields
    rHeader,     \* the map the render writes the header from or into
    rPc,         \* position of the render
    rI,          \* index of "for _, f := range files" in addFiles
    rParts,      \* the header of each file part written, in order
    rBefore      \* files and msg.header as they were when the render began

fileVars == <<rImpl, files, embedded, attachments, rMaps, rHeader, rPc, rI,
              rParts, rBefore>>

VARIABLES
    lwKind,      \* the line writer: "base64" or "qp"
    chunks,      \* the Write calls still to come: for each its p and the
                 \* bytes of the array of p beyond len(p), up to cap(p)
    written,     \* the p of the Write calls made so far, in order
    lineLen,     \* w.lineLen
    out,         \* the bytes written to w.w so far
    rets,        \* what each Write returned
    lwPc         \* "write", "done", or "panicked"

lineVars == <<lwKind, chunks, written, lineLen, out, rets, lwPc>>

VARIABLES
    bufPool,     \* the buffers in the pool: those put back and not taken again
    buffers,     \* the bytes.Buffer values made so far: for each its array
                 \* (cap BufCap, 0 where nothing was written) and its length
    sending      \* for each goroutine running send: its position, the buffer
                 \* flattenHeader holds, h, body, mail and what the Sender got

poolVars == <<bufPool, buffers, sending>>

VARIABLES
    api,         \* the version of Message: "message.go" or "gomail.go"
    parts,       \* m.parts: for each part its content type and where its
                 \* body comes from
    partsBefore, \* m.parts before the last call
    lastCall     \* the last call on the message and its content type

msgVars == <<api, parts, partsBefore, lastCall>>

VARIABLES
    arrays,       \* the arrays behind the file lists: for each its elements up
                  \* to its capacity, 0 where nothing was stored
    mAttachments, \* m.attachments, a slice: its array and its length
    mEmbedded,    \* m.embedded
    mHeader,      \* m.header: the fields set and their values
    mSettings,    \* m.charset, m.encoding, m.hEncoder and the bytes of m.buf
    mBefore,      \* the files of both lists before the last call on them
    made          \* the files made so far; a file is its number

buildVars == <<arrays, mAttachments, mEmbedded, mHeader, mSettings, mBefore,
               made>>

VARIABLES
    laImpl,      \* the version of loginAuth: "login.go" or "auth.go"
    laServer,    \* the smtp.ServerInfo given to Start: Name, TLS, Auth
    laPc,        \* "Start", "Next", "done" (the exchange is over) or
                 \* "failed" (Start or Next returned an error)
    laTrace      \* the calls made on the Auth so far, with what they
                 \* were given and what they returned

loginVars == <<laImpl, laServer, laPc, laTrace>>

nonSmtpVars   == <<sendVars, mailerVars, dasVars, writeVars, fileVars, lineVars, poolVars, msgVars, buildVars, loginVars>>
nonSendVars   == <<smtpVars, mailerVars, dasVars, writeVars, fileVars, lineVars, poolVars, msgVars, buildVars, loginVars>>
nonMailerVars == <<smtpVars, sendVars, dasVars, writeVars, fileVars, lineVars, poolVars, msgVars, buildVars, loginVars>>
nonWriteVars  == <<smtpVars, sendVars, mailerVars, dasVars, fileVars, lineVars, poolVars, msgVars, buildVars, loginVars>>
nonFileVars   == <<smtpVars, sendVars, mailerVars, dasVars, writeVars, lineVars, poolVars, msgVars, buildVars, loginVars>>
nonLoginVars  == <<smtpVars, sendVars, mailerVars, dasVars, writeVars, fileVars, lineVars, poolVars, msgVars, buildVars>>
nonBuildVars  == <<smtpVars, sendVars, mailerVars, dasVars, writeVars, fileVars, lineVars, poolVars, msgVars, loginVars>>
nonMessageVars == <<smtpVars, sendVars, mailerVars, dasVars, writeVars, fileVars, lineVars, poolVars, loginVars>>
nonMsgVars    == <<smtpVars, sendVars, mailerVars, dasVars, writeVars, fileVars, lineVars, poolVars, buildVars, loginVars>>
nonPoolVars   == <<smtpVars, sendVars, mailerVars, dasVars, writeVars, fileVars, lineVars, msgVars, buildVars, loginVars>>
nonLineVars  == <<smtpVars, sendVars, mailerVars, dasVars, writeVars, fileVars, poolVars, msgVars, buildVars, loginVars>>

\* The variables neither Dial and Send nor DialAndSend touch.
nonDasVars    == <<sendVars, mailerVars, writeVars, fileVars, lineVars, poolVars, msgVars, buildVars, loginVars>>

vars == <<smtpVars, sendVars, mailerVars, dasVars, writeVars, fileVars, lineVars, poolVars, msgVars, buildVars, loginVars>>

----------------------------------------------------------------------------
(* Bounds *)

MaxDials  == 1      \* user-level Dial calls
MaxSends  == 1      \* user-level Send calls
MaxRcpt   == 2      \* recipients of one Send
MaxRedial == 2      \* redials inside one Send (the code has no bound)
MaxMechs  == 2      \* mechanisms a server advertises at once

----------------------------------------------------------------------------
(* Strings as character sequences *)

\* strings.Contains(s, sub)
Contains(s, sub) ==
    \E i \in 0..(Len(s) - Len(sub)) : SubSeq(s, i + 1, i + Len(sub)) = sub

sCRAMMD5 == <<"C","R","A","M","-","M","D","5">>
sLOGIN   == <<"L","O","G","I","N">>
sPLAIN   == <<"P","L","A","I","N">>
sXOAUTH2 == <<"X","O","A","U","T","H","2">>
sPLAINCLIENTTOKEN ==
    <<"P","L","A","I","N","-","C","L","I","E","N","T","T","O","K","E","N">>

\* The mechanism names a server may list after AUTH.
Mechanisms == {sCRAMMD5, sLOGIN, sPLAIN, sXOAUTH2, sPLAINCLIENTTOKEN}

RECURSIVE JoinSp(_)
\* the parameter string of the AUTH extension: the names separated by spaces
JoinSp(ms) ==
    IF ms = <<>> THEN <<>>
    ELSE IF Len(ms) = 1 THEN ms[1]
    ELSE ms[1] \o <<" ">> \o JoinSp(Tail(ms))

\* The lists of distinct mechanisms a server may advertise. The order of the
\* names has no bearing on a substring test, so one order per set is kept.
MechLists ==
    {ms \in UNION {[1..n -> Mechanisms] : n \in 0..MaxMechs} :
        \A i, j \in DOMAIN ms : i < j => Len(ms[i]) < Len(ms[j])}

----------------------------------------------------------------------------
(* Errors *)

\* "timeout": a net.Error whose Timeout() is true; "neterr": a net.Error whose
\* Timeout() is false; "EOF": io.EOF; "proto": an unexpected SMTP reply.
ErrKinds == {"timeout", "neterr", "EOF", "proto"}

\* Dial hands every error back unread, so two kinds stand for all of them.
DialErrKinds == {"timeout", "proto"}

Nil == [kind |-> "nil", op |-> "", conn |-> 0]

Err(k, op, c) == [kind |-> k, op |-> op, conn |-> c]

\* The value of ret while a call of the caller is running.
Pending(fn) == [fn |-> fn, err |-> [kind |-> "pending", op |-> "", conn |-> 0]]

NoConn == [conn |-> 0, offer |-> FALSE, tls |-> "none"]

NoSender == NoConn

NoSel == [asked |-> FALSE, ok |-> FALSE, mechs |-> <<>>, auths |-> <<>>]

\* A call on the transport: the method, the connection, the argument and
\* whether it failed ("nil", "err"; "yes", "no" for Extension). The error
\* itself is what the caller of the call holds (ret, mailErr).
Entry(op, c, arg, res) ==
    [op |-> op, conn |-> c, arg |-> arg,
     res |-> IF res \in ErrKinds THEN "err" ELSE res]

----------------------------------------------------------------------------
(* Dialer.Dial, smtp.go:82-141 *)

\* retryError without "if !c.d.RetryFailure { return false }".
retryErrorNoFlag(dd, err) ==
    \/ err.kind = "timeout"
    \/ err.kind = "EOF"

\* smtpSender.retryError
retryError(dd, err) ==
    /\ dd.RetryFailure
    /\ \/ err.kind = "timeout"      \* nerr, ok := err.(net.Error); ok && nerr.Timeout()
       \/ err.kind = "EOF"          \* err == io.EOF

\* The choice of d.Auth with PLAIN tested before LOGIN.
selectAuthPlainFirst(auths) ==
    IF Contains(auths, sPLAIN) THEN "PLAIN"
    ELSE IF Contains(auths, sCRAMMD5) THEN "CRAM-MD5"
    ELSE IF Contains(auths, sLOGIN) THEN "LOGIN"
    ELSE "PLAIN"

\* The mechanism chosen from the AUTH parameter string, smtp.go:118-129
selectAuth(auths) ==
    IF Contains(auths, sCRAMMD5) THEN "CRAM-MD5"
    ELSE IF Contains(auths, sLOGIN) /\ ~Contains(auths, sPLAIN) THEN "LOGIN"
    ELSE "PLAIN"

\* Where Dial goes once the mechanism is settled (smtp.go:133).
AfterSelect(dd) == IF dd.Auth # "nil" THEN "Auth" ELSE "DialReturn"

\* The STARTTLS block followed by "if d.Username != \"\"", without the test
\* of d.Auth.
AfterTLSAsksAgain(dd) ==
    IF dd.Username # "" THEN "ExtAuth" ELSE AfterSelect(dd)

\* Where Dial goes after the STARTTLS block (smtp.go:116).
AfterTLS(dd) ==
    IF dd.Auth = "nil" /\ dd.Username # "" THEN "ExtAuth" ELSE AfterSelect(dd)

\* Where Dial goes after the Hello block (smtp.go:107).
AfterHello(dd) == IF ~dd.SSL THEN "ExtStartTLS" ELSE AfterTLS(dd)

\* Where Dial goes after smtpNewClient (smtp.go:101).
AfterNewClient(dd) == IF dd.LocalName # "" THEN "Hello" ELSE AfterHello(dd)

\* Dial returns (nil, err) and Send returns the error of Dial.
DialFailsReturnsDialError(err) ==
    /\ sel' = NoSel
    /\ cur' = NoConn
    /\ IF caller = "user"
       THEN /\ pc' = "idle"
            /\ ret' = [fn |-> "Dial", err |-> err]
            /\ sender' = NoSender
            /\ UNCHANGED <<mailErr, redials>>
       ELSE /\ pc' = "ready"
            /\ ret' = [fn |-> "Send", err |-> err]
            /\ mailErr' = Nil
            /\ UNCHANGED <<sender, redials>>

\* Dial returns (nil, err). A user's Dial hands the error to the user; the
\* Dial of a retry makes Send return the error of its MAIL (smtp.go:193-201).
DialFails(err) ==
    /\ sel' = NoSel
    /\ cur' = NoConn
    /\ IF caller = "user"
       THEN /\ pc' = "idle"
            /\ ret' = [fn |-> "Dial", err |-> err]
            /\ sender' = NoSender
            /\ UNCHANGED <<mailErr, redials>>
       ELSE /\ pc' = "ready"
            /\ ret' = [fn |-> "Send", err |-> mailErr]
            /\ mailErr' = Nil
            /\ UNCHANGED <<sender, redials>>

\* The caller starts d.Dial().
UserDial ==
    /\ pc = "idle"
    /\ nDials < MaxDials
    /\ nDials' = nDials + 1
    /\ caller' = "user"
    /\ pc' = "NetDial"
    /\ log' = <<>>
    /\ ret' = Pending("Dial")
    /\ UNCHANGED <<d, conns, cur, sender, sendArgs, idx, mailErr, redials,
                   sel, nSends>>
    /\ UNCHANGED nonSmtpVars

\* conn, err := NetDialTimeout(...); if d.SSL { conn = tlsClient(conn, ...) }
DialNetDial ==
    /\ pc = "NetDial"
    /\ \/ /\ conns' = Append(conns, [open |-> TRUE])
          /\ cur' = [conn |-> Len(conns) + 1, offer |-> FALSE,
                     tls |-> IF d.SSL THEN "ssl" ELSE "none"]
          /\ log' = log \o <<Entry("NetDialTimeout", Len(conns) + 1, "", "nil")>>
                        \o (IF d.SSL
                            THEN <<Entry("tlsClient", Len(conns) + 1, "", "nil")>>
                            ELSE <<>>)
          /\ pc' = "NewClient"
          /\ UNCHANGED <<sender, mailErr, redials, sel, ret>>
       \/ \E k \in DialErrKinds :
            /\ log' = Append(log, Entry("NetDialTimeout", 0, "", k))
            /\ DialFails(Err(k, "NetDialTimeout", 0))
            /\ UNCHANGED conns
    /\ UNCHANGED <<d, caller, sendArgs, idx, nDials, nSends>>
    /\ UNCHANGED nonSmtpVars

\* c, err := smtpNewClient(conn, d.Host). smtpNewClient is smtp.NewClient
\* (smtp.go:230-232), which closes the connection itself when it fails; Dial
\* makes no call of its own on that path.
DialNewClient ==
    /\ pc = "NewClient"
    /\ \/ /\ log' = Append(log, Entry("smtpNewClient", cur.conn, "", "nil"))
          /\ pc' = AfterNewClient(d)
          /\ UNCHANGED <<conns, cur, sender, mailErr, redials, sel, ret>>
       \/ \E k \in DialErrKinds :
            /\ log' = Append(log, Entry("smtpNewClient", cur.conn, "", k))
            /\ conns' = [conns EXCEPT ![cur.conn].open = FALSE]
            /\ DialFails(Err(k, "smtpNewClient", cur.conn))
    /\ UNCHANGED <<d, caller, sendArgs, idx, nDials, nSends>>
    /\ UNCHANGED nonSmtpVars

\* if d.LocalName != "" { c.Hello(d.LocalName) }
DialHello ==
    /\ pc = "Hello"
    /\ \/ /\ log' = Append(log, Entry("Hello", cur.conn, d.LocalName, "nil"))
          /\ pc' = AfterHello(d)
          /\ UNCHANGED <<cur, sender, mailErr, redials, sel, ret>>
       \/ \E k \in DialErrKinds :
            /\ log' = Append(log, Entry("Hello", cur.conn, d.LocalName, k))
            /\ DialFails(Err(k, "Hello", cur.conn))
    /\ UNCHANGED <<d, caller, conns, sendArgs, idx, nDials, nSends>>
    /\ UNCHANGED nonSmtpVars

\* c.Extension("STARTTLS") with no StartTLS after it.
DialExtensionStartTLSNoUpgrade ==
    /\ pc = "ExtStartTLS"
    /\ \E ok \in BOOLEAN :
         /\ log' = Append(log, Entry("Extension", cur.conn, "STARTTLS",
                                     IF ok THEN "yes" ELSE "no"))
         /\ cur' = [cur EXCEPT !.offer = ok]
         /\ pc' = AfterTLS(d)
    /\ UNCHANGED <<d, caller, conns, sender, sendArgs, idx, mailErr,
                   redials, sel, ret, nDials, nSends>>
    /\ UNCHANGED nonSmtpVars

\* if ok, _ := c.Extension("STARTTLS"); ok { ... }
DialExtensionStartTLS ==
    /\ pc = "ExtStartTLS"
    /\ \E ok \in BOOLEAN :
         /\ log' = Append(log, Entry("Extension", cur.conn, "STARTTLS",
                                     IF ok THEN "yes" ELSE "no"))
         /\ cur' = [cur EXCEPT !.offer = ok]
         /\ pc' = IF ok THEN "StartTLS" ELSE AfterTLS(d)
    /\ UNCHANGED <<d, caller, conns, sender, sendArgs, idx, mailErr,
                   redials, sel, ret, nDials, nSends>>
    /\ UNCHANGED nonSmtpVars

\* c.StartTLS without c.Close() on its error.
DialStartTLSNoClose ==
    /\ pc = "StartTLS"
    /\ \/ /\ log' = Append(log, Entry("StartTLS", cur.conn, "", "nil"))
          /\ cur' = [cur EXCEPT !.tls = "starttls"]
          /\ pc' = AfterTLS(d)
          /\ UNCHANGED <<conns, sender, mailErr, redials, sel, ret>>
       \/ \E k \in DialErrKinds :
            /\ log' = Append(log, Entry("StartTLS", cur.conn, "", k))
            /\ DialFails(Err(k, "StartTLS", cur.conn))
            /\ UNCHANGED conns
    /\ UNCHANGED <<d, caller, sendArgs, idx, nDials, nSends>>
    /\ UNCHANGED nonSmtpVars

\* if err := c.StartTLS(d.tlsConfig()); err != nil { c.Close(); return nil, err }
DialStartTLS ==
    /\ pc = "StartTLS"
    /\ \/ /\ log' = Append(log, Entry("StartTLS", cur.conn, "", "nil"))
          /\ cur' = [cur EXCEPT !.tls = "starttls"]
          /\ pc' = AfterTLS(d)
          /\ UNCHANGED <<conns, sender, mailErr, redials, sel, ret>>
       \/ \E k \in DialErrKinds :
            /\ log' = log \o <<Entry("StartTLS", cur.conn, "", k),
                               Entry("Close", cur.conn, "", "nil")>>
            /\ conns' = [conns EXCEPT ![cur.conn].open = FALSE]
            /\ DialFails(Err(k, "StartTLS", cur.conn))
    /\ UNCHANGED <<d, caller, sendArgs, idx, nDials, nSends>>
    /\ UNCHANGED nonSmtpVars

\* if ok, auths := c.Extension("AUTH"); ok { d.Auth = ... }
DialExtensionAuth ==
    /\ pc = "ExtAuth"
    /\ \E ok \in BOOLEAN, ms \in MechLists :
         /\ ok \/ ms = <<>>
         /\ LET auths == JoinSp(ms)
                dd    == IF ok THEN [d EXCEPT !.Auth = selectAuth(auths)] ELSE d
            IN  /\ d' = dd
                /\ sel' = [asked |-> TRUE, ok |-> ok, mechs |-> ms,
                           auths |-> auths]
                /\ pc' = AfterSelect(dd)
         /\ log' = Append(log, Entry("Extension", cur.conn, "AUTH",
                                     IF ok THEN "yes" ELSE "no"))
    /\ UNCHANGED <<caller, conns, cur, sender, sendArgs, idx, mailErr, redials,
                   ret, nDials, nSends>>
    /\ UNCHANGED nonSmtpVars

\* if d.Auth != nil { if err = c.Auth(d.Auth); err != nil { c.Close(); ... } }
DialAuth ==
    /\ pc = "Auth"
    /\ \/ /\ log' = Append(log, Entry("Auth", cur.conn, d.Auth, "nil"))
          /\ pc' = "DialReturn"
          /\ sel' = NoSel
          /\ UNCHANGED <<conns, cur, sender, mailErr, redials, ret>>
       \/ \E k \in DialErrKinds :
            /\ log' = log \o <<Entry("Auth", cur.conn, d.Auth, k),
                               Entry("Close", cur.conn, "", "nil")>>
            /\ conns' = [conns EXCEPT ![cur.conn].open = FALSE]
            /\ DialFails(Err(k, "Auth", cur.conn))
    /\ UNCHANGED <<d, caller, sendArgs, idx, nDials, nSends>>
    /\ UNCHANGED nonSmtpVars

\* return &smtpSender{c, conn, d}, nil. In a retry, Send goes on with
\* *c = *s and calls itself (smtp.go:194-197).
DialReturn ==
    /\ pc = "DialReturn"
    /\ sender' = cur
    /\ sel' = NoSel
    /\ cur' = NoConn
    /\ IF caller = "user"
       THEN /\ pc' = "ready"
            /\ ret' = [fn |-> "Dial", err |-> Nil]
            /\ UNCHANGED <<mailErr, redials, log>>
       ELSE /\ pc' = "Mail"
            /\ redials' = redials + 1
            /\ mailErr' = Nil
            /\ log' = <<>>
            /\ UNCHANGED ret
    /\ UNCHANGED <<d, caller, conns, sendArgs, idx, nDials, nSends>>
    /\ UNCHANGED nonSmtpVars

----------------------------------------------------------------------------
(* smtpSender.Send, smtp.go:184-221 *)

\* The recipient lists of a Send: send hands over deduplicated addresses, so
\* the lists hold distinct addresses; r2 comes before r1 so that the order
\* of the list is not the order of the names.
AllRcpts == <<"r2", "r1", "r3", "r4">>

ToLists == {SubSeq(AllRcpts, 1, n) : n \in 0..MaxRcpt}

SendReturns(err) ==
    /\ pc' = "ready"
    /\ ret' = [fn |-> "Send", err |-> err]

\* The caller starts s.Send(from, to, msg).
UserSend ==
    /\ pc = "ready"
    /\ nSends < MaxSends
    /\ \E to \in ToLists : sendArgs' = [from |-> "from", to |-> to]
    /\ nSends' = nSends + 1
    /\ redials' = 0
    /\ idx' = 1
    /\ pc' = "Mail"
    /\ log' = <<>>
    /\ ret' = Pending("Send")
    /\ UNCHANGED <<d, caller, conns, cur, sender, mailErr, sel, nDials>>
    /\ UNCHANGED nonSmtpVars

\* if err := c.Mail(from); err != nil { if c.retryError(err) { Dial ... } return err }
SendMail ==
    /\ pc = "Mail"
    /\ \/ /\ log' = Append(log, Entry("Mail", sender.conn, sendArgs.from, "nil"))
          /\ idx' = 1
          /\ pc' = IF sendArgs.to = <<>> THEN "Data" ELSE "Rcpt"
          /\ UNCHANGED <<caller, mailErr, ret>>
       \/ \E k \in ErrKinds :
            LET err == Err(k, "Mail", sender.conn) IN
            /\ log' = Append(log, Entry("Mail", sender.conn, sendArgs.from, k))
            /\ IF retryError(d, err)
               THEN /\ redials < MaxRedial
                    /\ mailErr' = err
                    /\ caller' = "Send"
                    /\ pc' = "NetDial"
                    /\ UNCHANGED <<ret, idx>>
               ELSE /\ SendReturns(err)
                    /\ UNCHANGED <<caller, mailErr, idx>>
    /\ UNCHANGED <<d, conns, cur, sender, sendArgs, redials, sel, nDials, nSends>>
    /\ UNCHANGED nonSmtpVars

\* The loop over to without "return err".
SendRcptContinues ==
    /\ pc = "Rcpt"
    /\ \E k \in ErrKinds \cup {"nil"} :
         log' = Append(log, Entry("Rcpt", sender.conn, sendArgs.to[idx], k))
    /\ idx' = idx + 1
    /\ pc' = IF idx = Len(sendArgs.to) THEN "Data" ELSE "Rcpt"
    /\ UNCHANGED <<d, caller, conns, cur, sender, sendArgs, mailErr, redials,
                   sel, ret, nDials, nSends>>
    /\ UNCHANGED nonSmtpVars

\* for _, addr := range to { if err := c.Rcpt(addr); err != nil { return err } }
SendRcpt ==
    /\ pc = "Rcpt"
    /\ \/ /\ log' = Append(log, Entry("Rcpt", sender.conn, sendArgs.to[idx], "nil"))
          /\ idx' = idx + 1
          /\ pc' = IF idx = Len(sendArgs.to) THEN "Data" ELSE "Rcpt"
          /\ UNCHANGED ret
       \/ \E k \in ErrKinds :
            /\ log' = Append(log, Entry("Rcpt", sender.conn, sendArgs.to[idx], k))
            /\ SendReturns(Err(k, "Rcpt", sender.conn))
            /\ UNCHANGED idx
    /\ UNCHANGED <<d, caller, conns, cur, sender, sendArgs, mailErr, redials,
                   sel, nDials, nSends>>
    /\ UNCHANGED nonSmtpVars

\* w, err := c.Data()
SendData ==
    /\ pc = "Data"
    /\ \/ /\ log' = Append(log, Entry("Data", sender.conn, "", "nil"))
          /\ pc' = "WriteTo"
          /\ UNCHANGED ret
       \/ \E k \in ErrKinds :
            /\ log' = Append(log, Entry("Data", sender.conn, "", k))
            /\ SendReturns(Err(k, "Data", sender.conn))
    /\ UNCHANGED <<d, caller, conns, cur, sender, sendArgs, idx, mailErr,
                   redials, sel, nDials, nSends>>
    /\ UNCHANGED nonSmtpVars

\* if _, err = msg.WriteTo(w); err != nil { w.Close(); return err }
SendWriteTo ==
    /\ pc = "WriteTo"
    /\ \/ /\ log' = Append(log, Entry("WriteTo", sender.conn, "", "nil"))
          /\ pc' = "CloseWriter"
          /\ UNCHANGED ret
       \/ \E k \in ErrKinds, kc \in {"nil", "proto"} :
            /\ log' = log \o <<Entry("WriteTo", sender.conn, "", k),
                               Entry("CloseWriter", sender.conn, "", kc)>>
            /\ SendReturns(Err(k, "WriteTo", sender.conn))
    /\ UNCHANGED <<d, caller, conns, cur, sender, sendArgs, idx, mailErr,
                   redials, sel, nDials, nSends>>
    /\ UNCHANGED nonSmtpVars

\* return w.Close()
SendCloseWriter ==
    /\ pc = "CloseWriter"
    /\ \E k \in DialErrKinds \cup {"nil"} :
         /\ log' = Append(log, Entry("CloseWriter", sender.conn, "", k))
         /\ SendReturns(IF k = "nil" THEN Nil
                        ELSE Err(k, "CloseWriter", sender.conn))
    /\ UNCHANGED <<d, caller, conns, cur, sender, sendArgs, idx, mailErr,
                   redials, sel, nDials, nSends>>
    /\ UNCHANGED nonSmtpVars

\* smtpSender.Close: return c.Quit()
UserClose ==
    /\ pc = "ready"
    /\ \E k \in DialErrKinds \cup {"nil"} :
         /\ log' = <<Entry("Quit", sender.conn, "", k)>>
         /\ ret' = [fn |-> "Close",
                    err |-> IF k = "nil" THEN Nil ELSE Err(k, "Quit", sender.conn)]
         /\ conns' = IF k = "nil"
                     THEN [conns EXCEPT ![sender.conn].open = FALSE]
                     ELSE conns
    /\ sender' = NoSender
    /\ pc' = "idle"
    /\ sendArgs' = [from |-> "from", to |-> <<>>]
    /\ idx' = 1
    /\ redials' = 0
    /\ UNCHANGED <<d, caller, cur, mailErr, sel, nDials, nSends>>
    /\ UNCHANGED nonSmtpVars

----------------------------------------------------------------------------

(* Each specification runs one part of the package; the variables of the
   other parts stay as they are set here. *)

NoHeader == [From |-> <<>>, Sender |-> <<>>, To |-> <<>>, Cc |-> <<>>,
             Bcc |-> <<>>]

SmtpOff ==
    /\ d = [SSL |-> FALSE, Username |-> "", Auth |-> "nil",
            RetryFailure |-> FALSE, LocalName |-> ""]
    /\ pc = "off"
    /\ caller = "user"
    /\ conns = <<>>
    /\ cur = NoConn
    /\ sender = NoSender
    /\ log = <<>>
    /\ sendArgs = [from |-> "from", to |-> <<>>]
    /\ idx = 1
    /\ mailErr = Nil
    /\ redials = 0
    /\ sel = NoSel
    /\ ret = [fn |-> "", err |-> Nil]
    /\ nDials = 0
    /\ nSends = 0

SendOff ==
    /\ header = NoHeader
    /\ spc = "off"
    /\ sfrom = <<>>
    /\ recipients = <<>>
    /\ bcc = <<>>
    /\ bi = 1
    /\ calls = <<>>
    /\ sendErr = "nil"

MailerOff ==
    /\ mailer = [impl |-> "part_008", ssl |-> FALSE, auth |-> "nil",
                 from |-> "from", to |-> <<>>]
    /\ mpc = "off"
    /\ mconn = "none"
    /\ mi = 1
    /\ mlog = <<>>
    /\ mret = "nil"

DasOff ==
    /\ msgs = <<>>
    /\ sendI = 1
    /\ dasPc = "off"
    /\ dasEvents = <<>>
    /\ dasRet = [index |-> 0, err |-> Nil]

WriteOff ==
    /\ wMsg = [p |-> 0, a |-> 0, e |-> 0, enc |-> "qp"]
    /\ wPc = "off"
    /\ wI = 1
    /\ writers = <<>>
    /\ partWriter = "nil"
    /\ wErr = "nil"
    /\ wN = 0
    /\ sink = [errored |-> FALSE, late |-> FALSE, bytes |-> 0]
    /\ wTrace = <<>>
    /\ wRet = "nil"
    /\ wRetN = 0

FileOff ==
    /\ rImpl = "header"
    /\ files = <<>>
    /\ embedded = <<>>
    /\ attachments = <<>>
    /\ rMaps = <<{}>>
    /\ rHeader = 1
    /\ rPc = "off"
    /\ rI = 1
    /\ rParts = <<>>
    /\ rBefore = [files |-> <<>>, header |-> {}]

LineOff ==
    /\ lwKind = "base64"
    /\ chunks = <<>>
    /\ written = <<>>
    /\ lineLen = 0
    /\ out = <<>>
    /\ rets = <<>>
    /\ lwPc = "off"

PoolOff ==
    /\ bufPool = {}
    /\ buffers = <<>>
    /\ sending = <<>>

MsgOff ==
    /\ api = "message.go"
    /\ parts = <<>>
    /\ partsBefore = <<>>
    /\ lastCall = [fn |-> "off", contentType |-> ""]

BuildOff ==
    /\ arrays = <<>>
    /\ mAttachments = [arr |-> 0, len |-> 0]
    /\ mEmbedded = [arr |-> 0, len |-> 0]
    /\ mHeader = {}
    /\ mSettings = [charset |-> "UTF-8", encoding |-> "qp",
                    hEncoder |-> "qEncoding", buf |-> 0,
                    given |-> <<>>]
    /\ mBefore = [attachments |-> <<>>, embedded |-> <<>>]
    /\ made = 0

LoginOff ==
    /\ laImpl = "login.go"
    /\ laServer = [Name |-> "", TLS |-> FALSE, Auth |-> {}]
    /\ laPc = "off"
    /\ laTrace = <<>>

Dialers ==
    [SSL : BOOLEAN, Username : {"", "user"}, Auth : {"nil", "custom"},
     RetryFailure : BOOLEAN, LocalName : {"", "local"}]

InitSmtp ==
    /\ d \in Dialers
    /\ pc = "idle"
    /\ caller = "user"
    /\ conns = <<>>
    /\ cur = NoConn
    /\ sender = NoSender
    /\ log = <<>>
    /\ sendArgs = [from |-> "from", to |-> <<>>]
    /\ idx = 1
    /\ mailErr = Nil
    /\ redials = 0
    /\ sel = NoSel
    /\ ret = [fn |-> "", err |-> Nil]
    /\ nDials = 0
    /\ nSends = 0
    /\ SendOff
    /\ MailerOff
    /\ DasOff
    /\ WriteOff
    /\ FileOff
    /\ LineOff
    /\ PoolOff
    /\ MsgOff
    /\ BuildOff
    /\ LoginOff

NextSmtp ==
    \/ UserDial
    \/ DialNetDial
    \/ DialNewClient
    \/ DialHello
    \/ DialExtensionStartTLS
    \/ DialStartTLS
    \/ DialExtensionAuth
    \/ DialAuth
    \/ DialReturn
    \/ UserSend
    \/ SendMail
    \/ SendRcpt
    \/ SendData
    \/ SendWriteTo
    \/ SendCloseWriter
    \/ UserClose

SpecSmtp == InitSmtp /\ [][NextSmtp]_vars

----------------------------------------------------------------------------
(* Properties of Dial and Send *)

\* The commands of an SMTP transaction.
TxOps == {"Mail", "Rcpt", "Data", "WriteTo", "CloseWriter"}

IsTxOp(e) == e.op \in TxOps

\* The transaction commands of the invocation in progress.
TxLog == SelectSeq(log, IsTxOp)

\* The transaction of Send(from, to, msg), as <<method, argument>> pairs.
Expected(from, to) ==
    <<<<"Mail", from>>>>
    \o [i \in 1..Len(to) |-> <<"Rcpt", to[i]>>]
    \o <<<<"Data", "">>, <<"WriteTo", "">>, <<"CloseWriter", "">>>>

\* The positions of Dial.
DialPcs == {"NetDial", "NewClient", "Hello", "ExtStartTLS", "StartTLS",
            "ExtAuth", "Auth", "DialReturn"}

\* Send is redialling after a failed MAIL.
Redialling == caller = "Send" /\ pc \in DialPcs

\* The caller's Send has returned.
SendReturned == pc = "ready" /\ ret.fn = "Send" /\ ret.err.kind # "pending"

\* ret is the error of the call that log entry e records.
ReturnedErrorOf(e) ==
    /\ SendReturned
    /\ ret.err.kind \in ErrKinds
    /\ ret.err.op = e.op
    /\ ret.err.conn = e.conn

\* The transaction commands come in the order MAIL, RCPT per recipient in
\* list order, DATA, write, close of the writer, all on the sender's client.
TxInOrder ==
    LET want == Expected(sendArgs.from, sendArgs.to) IN
    /\ Len(TxLog) <= Len(want)
    /\ \A i \in DOMAIN TxLog :
         /\ <<TxLog[i].op, TxLog[i].arg>> = want[i]
         /\ TxLog[i].conn = sender.conn

\* C1 (as claimed): within one Send at most one redial is made: a MAIL that
\* fails after the redial is returned, never answered by another redial.
C1_ExactlyOneRetry ==
    ret.fn = "Send" => /\ redials <= 1
                       /\ Redialling => redials = 0

\* C4 (as claimed): the transaction commands are issued in order, and a failed
\* MAIL, RCPT or DATA is the last call Send makes and its error is returned.
C4_Original ==
    ret.fn = "Send" =>
        /\ TxInOrder
        /\ \A i \in DOMAIN log :
             (log[i].res = "err" /\ log[i].op \in {"Mail", "Rcpt", "Data"})
                => /\ i = Len(log)
                   /\ ReturnedErrorOf(log[i])

\* C4 (amended): the transaction commands are issued in order; a failed MAIL,
\* RCPT or DATA is the last command of the transaction; the error of a failed
\* RCPT or DATA, and of a failed MAIL that is not retried or whose redial
\* fails, is returned; after a retried MAIL only the redial follows; a Send
\* that returns nil has issued the whole transaction.
C4_TransactionOrder ==
    ret.fn = "Send" =>
        /\ TxInOrder
        /\ \A i \in DOMAIN TxLog :
             (TxLog[i].res = "err" /\ TxLog[i].op \in {"Mail", "Rcpt", "Data"})
                => /\ i = Len(TxLog)
                   /\ \/ ReturnedErrorOf(TxLog[i])
                      \/ /\ TxLog[i].op = "Mail"
                         /\ Redialling
                         /\ retryError(d, mailErr)
                         /\ mailErr.op = "Mail" /\ mailErr.conn = TxLog[i].conn
        /\ (SendReturned /\ ret.err = Nil) =>
              /\ Len(TxLog) = Len(Expected(sendArgs.from, sendArgs.to))
              /\ \A i \in DOMAIN TxLog : TxLog[i].res = "nil"

\* A Send with two recipients, retried once, has returned nil.
C4_Witness ==
    /\ SendReturned
    /\ ret.err = Nil
    /\ Len(sendArgs.to) = 2
    /\ redials = 1

\* C5 (as claimed): after a failed write of the message the data writer is
\* not closed, so the partial message is not committed, and Send returns the
\* error of the write.
C5_FailedWriteNotCommitted ==
    \A i \in DOMAIN log :
        (log[i].op = "WriteTo" /\ log[i].res = "err")
            => /\ \A j \in DOMAIN log : j > i => log[j].op # "CloseWriter"
               /\ ReturnedErrorOf(log[i])

\* C6: Send redials only with RetryFailure on, after a MAIL that failed with
\* a timeout or EOF: every NetDialTimeout of a Send directly follows its
\* failed MAIL; a failed RCPT, DATA or write, and a MAIL failure that is not
\* a timeout or EOF or meets RetryFailure off, is returned with no dial.
C6_RedialOnlyForMailTimeout ==
    ret.fn = "Send" =>
        /\ Redialling =>
              /\ d.RetryFailure
              /\ mailErr.op = "Mail"
              /\ mailErr.kind \in {"timeout", "EOF"}
        /\ \A i \in DOMAIN log :
              log[i].op = "NetDialTimeout" =>
                 /\ d.RetryFailure
                 /\ i = 2
                 /\ log[1].op = "Mail" /\ log[1].res = "err"
        /\ (~d.RetryFailure) => redials = 0 /\ ~Redialling
        /\ (SendReturned /\ ret.err.kind \in ErrKinds) =>
              \/ /\ ret.err.op = "Mail"
                 /\ ret.err.kind \in {"timeout", "EOF"}
                 /\ d.RetryFailure
                 /\ Len(log) >= 2 /\ log[2].op = "NetDialTimeout"
              \/ /\ ret.err.op \in {"Mail", "Rcpt", "Data", "WriteTo", "CloseWriter"}
                 /\ (ret.err.op = "Mail") =>
                        (~d.RetryFailure \/ ret.err.kind \notin {"timeout", "EOF"})
                 /\ \A i \in DOMAIN log : log[i].op \in TxOps

\* After one redial a RCPT has failed with a timeout and Send has returned it.
C6_Witness ==
    /\ SendReturned
    /\ d.RetryFailure
    /\ redials = 1
    /\ ret.err.op = "Rcpt"
    /\ ret.err.kind = "timeout"

Range(f) == {f[i] : i \in DOMAIN f}

\* The mechanism the rule "CRAM-MD5 if advertised, else LOGIN if advertised
\* and PLAIN is not, else PLAIN" picks for a set of advertised names.
MechByName(names) ==
    IF sCRAMMD5 \in names THEN "CRAM-MD5"
    ELSE IF sLOGIN \in names /\ sPLAIN \notin names THEN "LOGIN"
    ELSE "PLAIN"

\* The same rule with "advertised" read as "is part of an advertised name".
MechBySubstring(names) ==
    IF \E n \in names : Contains(n, sCRAMMD5) THEN "CRAM-MD5"
    ELSE IF (\E n \in names : Contains(n, sLOGIN))
            /\ ~(\E n \in names : Contains(n, sPLAIN)) THEN "LOGIN"
    ELSE "PLAIN"

\* C7 (as claimed): a Dial with a Username and no Auth authenticates with the
\* mechanism of the rule, whatever the server advertises, also when it does
\* not advertise AUTH.
C7_Original ==
    sel.asked => /\ d.Auth = MechByName(Range(sel.mechs))
                 /\ pc = "Auth"

\* C7 (amended): when the server advertises AUTH, the mechanism is that of the
\* rule with names matched as substrings, and Auth is issued next; when it
\* does not, no mechanism is chosen and no Auth is issued.
C7_MechanismSelection ==
    sel.asked =>
        IF sel.ok
        THEN /\ d.Auth = MechBySubstring(Range(sel.mechs))
             /\ pc = "Auth"
        ELSE /\ d.Auth = "nil"
             /\ pc = "DialReturn"

\* The server lists LOGIN and PLAIN-CLIENTTOKEN and PLAIN is chosen.
C7_Witness ==
    /\ sel.asked
    /\ sel.ok
    /\ Range(sel.mechs) = {sLOGIN, sPLAINCLIENTTOKEN}
    /\ d.Auth = "PLAIN"

C9_TLSBeforeCredentials ==
    /\ \A i, j \in DOMAIN log :
         (/\ log[j].op = "Extension" /\ log[j].arg = "STARTTLS"
          /\ log[j].res = "yes"
          /\ log[i].op = "Auth"
          /\ log[i].conn = log[j].conn)
            => \E k \in DOMAIN log :
                  /\ j < k /\ k < i
                  /\ log[k].op = "StartTLS" /\ log[k].res = "nil"
                  /\ log[k].conn = log[i].conn
    /\ \A i \in DOMAIN log :
         log[i].op = "Mail" =>
            /\ log[i].conn = sender.conn
            /\ sender.offer => sender.tls = "starttls"
            /\ d.SSL => sender.tls = "ssl"
    /\ d.SSL =>
         /\ \A i \in DOMAIN log :
              /\ log[i].op # "StartTLS"
              /\ ~(log[i].op = "Extension" /\ log[i].arg = "STARTTLS")
              /\ log[i].op = "smtpNewClient" =>
                    /\ i > 1
                    /\ log[i - 1].op = "tlsClient"
                    /\ log[i - 1].conn = log[i].conn
         /\ cur # NoConn => cur.tls = "ssl"
    /\ (~d.SSL) => \A i \in DOMAIN log : log[i].op # "tlsClient"

\* Auth has been issued on a connection whose server offered STARTTLS.
C9_Witness ==
    /\ ~d.SSL
    /\ pc = "DialReturn"
    /\ cur.offer
    /\ \E i \in DOMAIN log : log[i].op = "Auth" /\ log[i].res = "nil"

\* C35 (as claimed): the redials of one Send are bounded by the code itself:
\* while MAIL keeps failing with a timeout or EOF and every redial succeeds,
\* Send stops redialling before the count reaches MaxRedial, the number at
\* which the model stops following it.
C35_RedialsBounded ==
    ret.fn = "Send" => redials < MaxRedial

\* The calls c.Extension("AUTH") of a log.
AuthListReads(l) ==
    {i \in DOMAIN l : l[i].op = "Extension" /\ l[i].arg = "AUTH"}

\* C38: the Dialer's Auth, once it holds a mechanism, is never chosen again:
\* no step changes it, no Dial comes to the call of Extension("AUTH") or adds
\* such a call to the log, and the Auth a Dial issues carries the stored
\* mechanism, in the redial of a retry as in a Dial of the caller. Auth goes
\* from none to a mechanism only in the step that reads the server's list.
C38_SelectionAtMostOnce ==
    [][/\ d.Auth # "nil" =>
            /\ d'.Auth = d.Auth
            /\ pc' # "ExtAuth"
            /\ \A i \in AuthListReads(log') :
                  i \in DOMAIN log /\ log[i] = log'[i]
       /\ d'.Auth # d.Auth =>
            /\ pc = "ExtAuth"
            /\ d.Auth = "nil"
            /\ sel'.ok
            /\ d'.Auth = selectAuth(sel'.auths)
       /\ (pc = "Auth" /\ pc' # "Auth") =>
            /\ Len(log') > Len(log)
            /\ log'[Len(log) + 1].op = "Auth"
            /\ log'[Len(log) + 1].arg = d.Auth]_vars

\* The redial of a retry has come to Auth with the mechanism an earlier Dial
\* chose, without a call of Extension("AUTH") in this Send.
C38_Witness ==
    /\ Redialling
    /\ pc = "Auth"
    /\ d.Auth \in {"CRAM-MD5", "LOGIN", "PLAIN"}
    /\ ~sel.asked
    /\ AuthListReads(log) = {}

\* C39: while the redial of a retry runs, the sender stays as it was when
\* its MAIL failed; when the redial fails, Send returns the error of that
\* MAIL, the sender is still the one whose MAIL failed, and the failed MAIL
\* is the only transaction command of the Send: none follows the redial.
C39_FailedRedial ==
    [][/\ (Redialling /\ pc' \in DialPcs) => sender' = sender
       /\ (Redialling /\ pc' = "ready") =>
            /\ mailErr.op = "Mail"
            /\ mailErr.kind \in {"timeout", "EOF"}
            /\ ret' = [fn |-> "Send", err |-> mailErr]
            /\ sender' = sender
            /\ sender.conn = mailErr.conn
            /\ SelectSeq(log', IsTxOp) = TxLog
            /\ Len(TxLog) = 1
            /\ log[1].op = "Mail" /\ log[1].res = "err"
            /\ log[1].conn = sender.conn]_vars

\* The Auth of a redial has failed and Send has returned the timeout of its
\* MAIL.
C39_Witness ==
    /\ SendReturned
    /\ ret.err.op = "Mail"
    /\ ret.err.kind = "timeout"
    /\ ret.err.conn = sender.conn
    /\ \E i \in DOMAIN log : /\ log[i].op = "Auth"
                              /\ log[i].res = "err"
                              /\ log[i].conn # sender.conn

\* The connections that are open.
OpenConns == {c \in DOMAIN conns : conns[c].open}

\* C36 (as claimed): when a Dial of the caller has returned an error, and
\* when the caller's Close has returned, no connection is open: neither the
\* one a failed step of Dial was using nor the one a retry redial replaced.
C36_NoConnectionLeak ==
    (pc = "idle" /\ ret.fn \in {"Dial", "Close"}) => OpenConns = {}

----------------------------------------------------------------------------
(* send with one transmission per Bcc address: Send, send, flattenHeader,
   getFrom, getRecipients, addAdress, parseAddress *)

MaxBcc  == 2        \* values of the Bcc field
MaxToCc == 1        \* values of the To field, and of the Cc field

\* Header values. vAA holds the address of vA as a substring; vNA is the
\* address of vA with a display name; vBad is no address.
vA   == <<"a","@","x">>
vAA  == <<"a","a","@","x">>
vB   == <<"b","@","x">>
vNA  == <<"N"," ","<","a","@","x",">">>
vBad == <<"b","a","d">>
vF   == <<"f","@","x">>
vS   == <<"s","@","x">>

BccValues  == {vA, vAA, vB, vNA, vBad}
ToCcValues == {vA, vNA, vBad}

\* The sequences over S of at most n elements.
SeqUpTo(S, n) == UNION {[1..k -> S] : k \in 0..n}

Headers ==
    [From   : {<<>>, <<vF>>, <<vBad>>},
     Sender : {<<>>, <<vS>>},
     To     : SeqUpTo(ToCcValues, MaxToCc),
     Cc     : SeqUpTo(ToCcValues, MaxToCc),
     Bcc    : SeqUpTo(BccValues, MaxBcc)]

\* The first position of character ch in s, 0 if there is none.
IndexOf(s, ch) ==
    IF \E i \in DOMAIN s : s[i] = ch
    THEN CHOOSE i \in DOMAIN s : s[i] = ch /\ \A j \in 1..(i - 1) : s[j] # ch
    ELSE 0

\* mail.ParseAddress on the values above: "local@domain", alone or in angle
\* brackets after a display name.
parseAddress(field) ==
    LET lt   == IndexOf(field, "<")
        spec == IF lt = 0 THEN field
                ELSE IF field[Len(field)] = ">"
                     THEN SubSeq(field, lt + 1, Len(field) - 1)
                     ELSE <<>>
        at   == IndexOf(spec, "@")
        ok   == /\ at > 1
                /\ at < Len(spec)
                /\ \A i \in DOMAIN spec :
                     /\ spec[i] \notin {" ", "<", ">"}
                     /\ (spec[i] = "@") => i = at
    IN  IF ok THEN [addr |-> spec, err |-> "nil"]
        ELSE [addr |-> <<>>, err |-> "parse"]

\* msg.Header.Get(field): the first value of the field, "" if it has none.
HeaderGet(h, field) == IF h[field] = <<>> THEN <<>> ELSE h[field][1]

\* getFrom with From looked up before Sender.
getFromPrefersFrom(h) ==
    LET from == IF HeaderGet(h, "From") # <<>> THEN HeaderGet(h, "From")
                ELSE HeaderGet(h, "Sender")
    IN  IF from = <<>> THEN [addr |-> <<>>, err |-> "absent"]
        ELSE parseAddress(from)

getFrom(h) ==
    LET from == IF HeaderGet(h, "Sender") # <<>> THEN HeaderGet(h, "Sender")
                ELSE HeaderGet(h, "From")
    IN  IF from = <<>> THEN [addr |-> <<>>, err |-> "absent"]
        ELSE parseAddress(from)

\* addAdress without the search for addr in list.
addAdressNoSearch(list, addr) ==
    LET a == parseAddress(addr) IN
    IF a.err # "nil" THEN [list |-> list, err |-> a.err]
    ELSE [list |-> Append(list, a.addr), err |-> "nil"]

addAdress(list, addr) ==
    LET a == parseAddress(addr) IN
    IF a.err # "nil" THEN [list |-> list, err |-> a.err]
    ELSE IF \E i \in DOMAIN list : list[i] = a.addr
         THEN [list |-> list, err |-> "nil"]
         ELSE [list |-> Append(list, a.addr), err |-> "nil"]

\* The inner loop of getRecipients: addAdress for each value of a field, up
\* to the first error.
RECURSIVE addAddresses(_, _)

addAddresses(list, addresses) ==
    IF addresses = <<>> THEN [list |-> list, err |-> "nil"]
    ELSE LET r == addAdress(list, Head(addresses)) IN
         IF r.err # "nil" THEN r ELSE addAddresses(r.list, Tail(addresses))

getRecipients(h) ==
    LET b == addAddresses(<<>>, h.Bcc)
        t == addAddresses(<<>>, h.To)
        c == addAddresses(t.list, h.Cc)
    IN  IF b.err # "nil"
        THEN [recipients |-> <<>>, bcc |-> b.list, err |-> b.err]
        ELSE IF t.err # "nil"
        THEN [recipients |-> t.list, bcc |-> b.list, err |-> t.err]
        ELSE [recipients |-> c.list, bcc |-> b.list, err |-> c.err]

\* strings.Join(values, ", ")
RECURSIVE Join(_)

Join(values) ==
    IF values = <<>> THEN <<>>
    ELSE IF Len(values) = 1 THEN values[1]
    ELSE values[1] \o <<",", " ">> \o Join(Tail(values))

\* The header block flattenHeader(msg, to) writes. Go ranges over the map of
\* fields in no fixed order, and the values of one field are written together:
\* the block is the set of its lines other than Bcc and the sequence of its
\* Bcc lines.
flattenHeader(h, to) ==
    [lines |-> {<<f, Join(h[f])>> : f \in {g \in {"From", "Sender", "To", "Cc"} :
                                              h[g] # <<>>}},
     bcc   |-> IF to # <<>>
               THEN SelectSeq(h.Bcc, LAMBDA value : Contains(value, to))
               ELSE <<>>]

\* send up to the first s.Send: message := msg.Export(), getFrom,
\* getRecipients.
sendResolve ==
    /\ spc = "start"
    /\ LET f == getFrom(header)
           r == getRecipients(header)
       IN  IF f.err # "nil"
           THEN /\ sendErr' = f.err
                /\ spc' = "done"
                /\ UNCHANGED <<sfrom, recipients, bcc>>
           ELSE IF r.err # "nil"
           THEN /\ sendErr' = r.err
                /\ spc' = "done"
                /\ UNCHANGED <<sfrom, recipients, bcc>>
           ELSE /\ sfrom' = f.addr
                /\ recipients' = r.recipients
                /\ bcc' = r.bcc
                /\ spc' = "primary"
                /\ UNCHANGED sendErr
    /\ UNCHANGED <<header, bi, calls>>
    /\ UNCHANGED nonSendVars

\* h := flattenHeader(message, ""); s.Send(from, recipients, mail) is called.
sendPrimaryCall ==
    /\ spc = "primary"
    /\ calls' = Append(calls, [from |-> sfrom, to |-> recipients,
                               h |-> flattenHeader(header, <<>>),
                               status |-> "running"])
    /\ spc' = "primaryRunning"
    /\ UNCHANGED <<header, sfrom, recipients, bcc, bi, sendErr>>
    /\ UNCHANGED nonSendVars

\* s.Send(from, recipients, mail) returns: if err != nil { return err }
sendPrimaryReturn ==
    /\ spc = "primaryRunning"
    /\ \E res \in {"ok", "err"} :
         /\ calls' = [calls EXCEPT ![Len(calls)].status = res]
         /\ IF res = "ok"
            THEN /\ spc' = "bcc"
                 /\ bi' = 1
                 /\ UNCHANGED sendErr
            ELSE /\ spc' = "done"
                 /\ sendErr' = "send"
                 /\ UNCHANGED bi
    /\ UNCHANGED <<header, sfrom, recipients, bcc>>
    /\ UNCHANGED nonSendVars

\* One call of s.Send for the whole of bcc.
sendBccCallAll ==
    /\ spc = "bcc"
    /\ bi <= Len(bcc)
    /\ calls' = Append(calls, [from |-> sfrom, to |-> bcc,
                               h |-> flattenHeader(header, bcc[bi]),
                               status |-> "running"])
    /\ bi' = Len(bcc)
    /\ spc' = "bccRunning"
    /\ UNCHANGED <<header, sfrom, recipients, bcc, sendErr>>
    /\ UNCHANGED nonSendVars

\* for _, to := range bcc { h = flattenHeader(message, to);
\* s.Send(from, []string{to}, mail) is called.
sendBccCall ==
    /\ spc = "bcc"
    /\ bi <= Len(bcc)
    /\ calls' = Append(calls, [from |-> sfrom, to |-> <<bcc[bi]>>,
                               h |-> flattenHeader(header, bcc[bi]),
                               status |-> "running"])
    /\ spc' = "bccRunning"
    /\ UNCHANGED <<header, sfrom, recipients, bcc, bi, sendErr>>
    /\ UNCHANGED nonSendVars

\* The loop over bcc without "return err".
sendBccReturnGoesOn ==
    /\ spc = "bccRunning"
    /\ \E res \in {"ok", "err"} :
         calls' = [calls EXCEPT ![Len(calls)].status = res]
    /\ spc' = "bcc"
    /\ bi' = bi + 1
    /\ UNCHANGED <<header, sfrom, recipients, bcc, sendErr>>
    /\ UNCHANGED nonSendVars

\* s.Send(from, []string{to}, mail) returns: if err != nil { return err }
sendBccReturn ==
    /\ spc = "bccRunning"
    /\ \E res \in {"ok", "err"} :
         /\ calls' = [calls EXCEPT ![Len(calls)].status = res]
         /\ IF res = "ok"
            THEN /\ spc' = "bcc"
                 /\ bi' = bi + 1
                 /\ UNCHANGED sendErr
            ELSE /\ spc' = "done"
                 /\ sendErr' = "send"
                 /\ UNCHANGED bi
    /\ UNCHANGED <<header, sfrom, recipients, bcc>>
    /\ UNCHANGED nonSendVars

\* The loop over bcc is over: return nil.
sendReturn ==
    /\ spc = "bcc"
    /\ bi > Len(bcc)
    /\ spc' = "done"
    /\ sendErr' = "nil"
    /\ UNCHANGED <<header, sfrom, recipients, bcc, bi, calls>>
    /\ UNCHANGED nonSendVars

InitSend ==
    /\ header \in Headers
    /\ spc = "start"
    /\ sfrom = <<>>
    /\ recipients = <<>>
    /\ bcc = <<>>
    /\ bi = 1
    /\ calls = <<>>
    /\ sendErr = "nil"
    /\ SmtpOff
    /\ MailerOff
    /\ DasOff
    /\ WriteOff
    /\ FileOff
    /\ LineOff
    /\ PoolOff
    /\ MsgOff
    /\ BuildOff
    /\ LoginOff

NextSend ==
    \/ sendResolve
    \/ sendPrimaryCall
    \/ sendPrimaryReturn
    \/ sendBccCall
    \/ sendBccReturn
    \/ sendReturn

SpecSend == InitSend /\ [][NextSend]_vars

----------------------------------------------------------------------------
(* Claims on send *)

\* The address of a header value.
AddrOf(value) == parseAddress(value).addr

\* The elements of s in the order of their first occurrence.
RECURSIVE Distinct(_)

Distinct(s) ==
    IF s = <<>> THEN <<>>
    ELSE LET front == Distinct(SubSeq(s, 1, Len(s) - 1))
             x     == s[Len(s)]
         IN  IF x \in Range(front) THEN front ELSE Append(front, x)

\* The addresses of a list of header values.
Addrs(values) == [i \in DOMAIN values |-> AddrOf(values[i])]

\* C2 (as claimed): the header block of the primary transmission has no Bcc
\* line, and the header block of the transmission to a Bcc address has
\* exactly one Bcc line, whose address is that recipient's.
C2_BccHeaderIsolation ==
    \A i \in DOMAIN calls :
        IF i = 1
        THEN calls[i].h.bcc = <<>>
        ELSE /\ Len(calls[i].h.bcc) = 1
             /\ Len(calls[i].to) = 1
             /\ AddrOf(calls[i].h.bcc[1]) = calls[i].to[1]

Transmissions(a) ==
    {ij \in (DOMAIN calls) \X (1..(MaxBcc + 2 * MaxToCc)) :
        /\ ij[2] \in DOMAIN calls[ij[1]].to
        /\ calls[ij[1]].to[ij[2]] = a}

\* C37 (as claimed): when send has returned nil, every address of the To, Cc
\* and Bcc fields is a recipient of exactly one call of the Sender, once in
\* its list, also an address that is both in To or Cc and in Bcc.
C37_OneTransmissionPerAddress ==
    (spc = "done" /\ sendErr = "nil") =>
        \A a \in Range(Addrs(header.To \o header.Cc \o header.Bcc)) :
            Cardinality(Transmissions(a)) = 1

----------------------------------------------------------------------------
(* The function Mailer.getSendMailFunc returns, in its two versions: the
   one that dials with sslDial or starttlsDial (impl "part_008") and the
   older one that dials with initSMTP itself (impl "part_007"). One call on
   the client c per step; the server's answer is chosen nondeterministically.
   mlog holds the calls on c as the test's mock client records them. *)

MEntry(op, arg, res) == [op |-> op, arg |-> arg, res |-> res]

\* Where the function goes after the connection is set up: "if a != nil".
MAfterDial(m) == IF m.auth # "nil" THEN "ExtAuth" ELSE "Mail"

\* return err, with "defer c.Close()" in force: Close is the last call.
MReturnDeferred(entries, err) ==
    /\ mlog' = mlog \o entries \o <<MEntry("Close", "", "nil")>>
    /\ mconn' = "closed"
    /\ mret' = err
    /\ mpc' = "done"

\* c, err = sslDial(addr, m.host, m.config): initTLS, then newClient.
sslDial ==
    /\ mpc = "dial"
    /\ mailer.impl = "part_008"
    /\ mailer.ssl
    /\ \/ /\ mconn' = "open"
          /\ mpc' = MAfterDial(mailer)
          /\ UNCHANGED mret
       \/ /\ mret' = "err"
          /\ mpc' = "done"
          /\ UNCHANGED mconn
       \/ /\ mret' = "err"
          /\ mpc' = "done"
          /\ mconn' = "open"
    /\ UNCHANGED <<mailer, mi, mlog>>
    /\ UNCHANGED nonMailerVars

\* c, err := initSMTP(addr), in starttlsDial and in the older function.
initSMTP ==
    /\ mpc = "dial"
    /\ mailer.impl = "part_008" => ~mailer.ssl
    /\ \/ /\ mconn' = "open"
          /\ mpc' = "ExtStartTLS"
          /\ UNCHANGED mret
       \/ /\ mret' = "err"
          /\ mpc' = "done"
          /\ UNCHANGED mconn
    /\ UNCHANGED <<mailer, mi, mlog>>
    /\ UNCHANGED nonMailerVars

\* if ok, _ := c.Extension("STARTTLS"); ok { ... }
sendMailExtensionStartTLS ==
    /\ mpc = "ExtStartTLS"
    /\ \E ok \in BOOLEAN :
         /\ mlog' = Append(mlog, MEntry("Extension", "STARTTLS",
                                        IF ok THEN "yes" ELSE "no"))
         /\ mpc' = IF ok THEN "StartTLS" ELSE MAfterDial(mailer)
    /\ UNCHANGED <<mailer, mconn, mi, mret>>
    /\ UNCHANGED nonMailerVars

\* starttlsDial: return c, c.StartTLS(config), and its caller's
\* "if err != nil { return err }; defer c.Close()". The older function:
\* return c.StartTLS(m.config).
sendMailStartTLS ==
    /\ mpc = "StartTLS"
    /\ \E res \in {"nil", "err"} :
         /\ mlog' = Append(mlog, MEntry("StartTLS", "", res))
         /\ IF mailer.impl = "part_007" \/ res = "err"
            THEN /\ mret' = res
                 /\ mpc' = "done"
            ELSE /\ mpc' = MAfterDial(mailer)
                 /\ UNCHANGED mret
    /\ UNCHANGED <<mailer, mconn, mi>>
    /\ UNCHANGED nonMailerVars

\* if ok, _ := c.Extension("AUTH"); ok { ... }
sendMailExtensionAuth ==
    /\ mpc = "ExtAuth"
    /\ \E ok \in BOOLEAN :
         /\ mlog' = Append(mlog, MEntry("Extension", "AUTH",
                                        IF ok THEN "yes" ELSE "no"))
         /\ mpc' = IF ok THEN "Auth" ELSE "Mail"
    /\ UNCHANGED <<mailer, mconn, mi, mret>>
    /\ UNCHANGED nonMailerVars

\* if err = c.Auth(a); err != nil { return err }
sendMailAuth ==
    /\ mpc = "Auth"
    /\ \/ /\ mlog' = Append(mlog, MEntry("Auth", mailer.auth, "nil"))
          /\ mpc' = "Mail"
          /\ UNCHANGED <<mconn, mret>>
       \/ MReturnDeferred(<<MEntry("Auth", mailer.auth, "err")>>, "err")
    /\ UNCHANGED <<mailer, mi>>
    /\ UNCHANGED nonMailerVars

\* if err = c.Mail(from); err != nil { return err }
sendMailMail ==
    /\ mpc = "Mail"
    /\ \/ /\ mlog' = Append(mlog, MEntry("Mail", mailer.from, "nil"))
          /\ mpc' = IF mailer.to = <<>> THEN "Data" ELSE "Rcpt"
          /\ UNCHANGED <<mconn, mret>>
       \/ MReturnDeferred(<<MEntry("Mail", mailer.from, "err")>>, "err")
    /\ UNCHANGED <<mailer, mi>>
    /\ UNCHANGED nonMailerVars

\* for _, addr := range to { if err = c.Rcpt(addr); err != nil { return err } }
sendMailRcpt ==
    /\ mpc = "Rcpt"
    /\ \/ /\ mlog' = Append(mlog, MEntry("Rcpt", mailer.to[mi], "nil"))
          /\ mi' = mi + 1
          /\ mpc' = IF mi = Len(mailer.to) THEN "Data" ELSE "Rcpt"
          /\ UNCHANGED <<mconn, mret>>
       \/ /\ MReturnDeferred(<<MEntry("Rcpt", mailer.to[mi], "err")>>, "err")
          /\ UNCHANGED mi
    /\ UNCHANGED mailer
    /\ UNCHANGED nonMailerVars

\* w, err := c.Data()
sendMailData ==
    /\ mpc = "Data"
    /\ \/ /\ mlog' = Append(mlog, MEntry("Data", "", "nil"))
          /\ mpc' = "Write"
          /\ UNCHANGED <<mconn, mret>>
       \/ MReturnDeferred(<<MEntry("Data", "", "err")>>, "err")
    /\ UNCHANGED <<mailer, mi>>
    /\ UNCHANGED nonMailerVars

\* _, err = w.Write(msg)
sendMailWrite ==
    /\ mpc = "Write"
    /\ \/ /\ mlog' = Append(mlog, MEntry("Write", "message", "nil"))
          /\ mpc' = "CloseWriter"
          /\ UNCHANGED <<mconn, mret>>
       \/ MReturnDeferred(<<MEntry("Write", "message", "err")>>, "err")
    /\ UNCHANGED <<mailer, mi>>
    /\ UNCHANGED nonMailerVars

\* err = w.Close()
sendMailCloseWriter ==
    /\ mpc = "CloseWriter"
    /\ \/ /\ mlog' = Append(mlog, MEntry("Close writer", "", "nil"))
          /\ mpc' = "Quit"
          /\ UNCHANGED <<mconn, mret>>
       \/ MReturnDeferred(<<MEntry("Close writer", "", "err")>>, "err")
    /\ UNCHANGED <<mailer, mi>>
    /\ UNCHANGED nonMailerVars

\* return c.Quit()
sendMailQuit ==
    /\ mpc = "Quit"
    /\ \E res \in {"nil", "err"} :
         MReturnDeferred(<<MEntry("Quit", "", res)>>, res)
    /\ UNCHANGED <<mailer, mi>>
    /\ UNCHANGED nonMailerVars

\* NewCustomMailer: m.send = m.getSendMailFunc(port == "465"); the older
\* getSendMailFunc takes no ssl.
Mailers ==
    {m \in [impl : {"part_007", "part_008"}, ssl : BOOLEAN,
            auth : {"nil", "auth"}, from : {"from"}, to : ToLists] :
        m.impl = "part_007" => ~m.ssl}

InitMailer ==
    /\ mailer \in Mailers
    /\ mpc = "dial"
    /\ mconn = "none"
    /\ mi = 1
    /\ mlog = <<>>
    /\ mret = "nil"
    /\ SmtpOff
    /\ SendOff
    /\ DasOff
    /\ WriteOff
    /\ FileOff
    /\ LineOff
    /\ PoolOff
    /\ MsgOff
    /\ BuildOff
    /\ LoginOff

NextMailer ==
    \/ sslDial
    \/ initSMTP
    \/ sendMailExtensionStartTLS
    \/ sendMailStartTLS
    \/ sendMailExtensionAuth
    \/ sendMailAuth
    \/ sendMailMail
    \/ sendMailRcpt
    \/ sendMailData
    \/ sendMailWrite
    \/ sendMailCloseWriter
    \/ sendMailQuit

SpecMailer == InitMailer /\ [][NextMailer]_vars

----------------------------------------------------------------------------
(* Claims on the Mailer's send function *)

\* The calls of mlog as <<method, argument>> pairs.
MCommands == [i \in DOMAIN mlog |-> <<mlog[i].op, mlog[i].arg>>]

\* The command sequence of TestDefaultSendMail for from and to.
DefaultSendMailSequence(auth, from, to) ==
    <<<<"Extension", "STARTTLS">>, <<"StartTLS", "">>,
      <<"Extension", "AUTH">>, <<"Auth", auth>>, <<"Mail", from>>>>
    \o [i \in 1..Len(to) |-> <<"Rcpt", to[i]>>]
    \o <<<<"Data", "">>, <<"Write", "message">>, <<"Close writer", "">>,
         <<"Quit", "">>, <<"Close", "">>>>

\* The server has offered every extension it was asked for and accepted
\* every command so far.
ServerAccepts ==
    \A i \in DOMAIN mlog :
        mlog[i].res = (IF mlog[i].op = "Extension" THEN "yes" ELSE "nil")

\* C10 (as claimed): a send over a non-SSL address, with an auth, to a server
\* that offers STARTTLS and AUTH and accepts every command, returns nil after
\* exactly the commands Extension STARTTLS, StartTLS, Extension AUTH, Auth,
\* Mail, Rcpt per recipient, Data, Write, Close writer, Quit, Close.
C10_DefaultSendMailSequence ==
    (/\ mpc = "done"
     /\ mconn # "none"
     /\ ~mailer.ssl
     /\ mailer.auth # "nil"
     /\ ServerAccepts)
        => /\ MCommands = DefaultSendMailSequence(mailer.auth, mailer.from,
                                                  mailer.to)
           /\ mret = "nil"

----------------------------------------------------------------------------
(* Dialer.DialAndSend, smtp.go:154-164, with the loop of Send over the
   messages (send.go:37-46) and, for each message, send up to its call of
   s.Send. The Dial and the smtpSender.Send it runs are the actions of
   SpecSmtp. *)

MaxMsgs == 2        \* messages of one DialAndSend

\* What send finds in a message: its recipients, or "bad" when getFrom or
\* getRecipients returns an error.
Messages == {"bad", SubSeq(AllRcpts, 1, 1)}

MsgLists == UNION {[1..k -> Messages] : k \in 0..MaxMsgs}

\* The call that was running has returned nil: Dial, or the Send of the
\* message before.
LastReturnedNil ==
    /\ pc = "ready"
    /\ \/ dasPc = "dialing" /\ ret = [fn |-> "Dial", err |-> Nil]
       \/ dasPc = "sending" /\ ret = [fn |-> "Send", err |-> Nil]

\* The events with the send that was running marked as returned with r.
Returned(events, r) ==
    IF events # <<>> /\ events[Len(events)].res = "running"
    THEN [events EXCEPT ![Len(events)].res = r]
    ELSE events

\* s, err := d.Dial()
DialAndSend ==
    /\ dasPc = "call"
    /\ pc = "idle"
    /\ caller' = "user"
    /\ pc' = "NetDial"
    /\ log' = <<>>
    /\ ret' = Pending("Dial")
    /\ dasPc' = "dialing"
    /\ UNCHANGED <<d, conns, cur, sender, sendArgs, idx, mailErr, redials,
                   sel, nDials, nSends>>
    /\ UNCHANGED <<msgs, sendI, dasEvents, dasRet>>
    /\ UNCHANGED nonDasVars

\* if err != nil { return err }
DialAndSendDialError ==
    /\ dasPc = "dialing"
    /\ pc = "idle"
    /\ ret.fn = "Dial"
    /\ ret.err.kind \in ErrKinds
    /\ dasRet' = [index |-> 0, err |-> ret.err]
    /\ dasPc' = "done"
    /\ UNCHANGED <<msgs, sendI, dasEvents>>
    /\ UNCHANGED <<smtpVars, nonDasVars>>

\* The loop of Send going on after a send that failed before its s.Send.
SendLoopNextSkipsError ==
    /\ LastReturnedNil
    /\ sendI <= Len(msgs)
    /\ sendI' = sendI + 1
    /\ IF msgs[sendI] = "bad"
       THEN /\ dasEvents' = Append(Returned(dasEvents, "nil"),
                                   [ev |-> "send", i |-> sendI, conn |-> 0,
                                    res |-> "err"])
            /\ UNCHANGED <<dasRet, dasPc>>
            /\ UNCHANGED smtpVars
       ELSE /\ dasEvents' = Append(Returned(dasEvents, "nil"),
                                   [ev |-> "send", i |-> sendI,
                                    conn |-> sender.conn, res |-> "running"])
            /\ sendArgs' = [from |-> "from", to |-> msgs[sendI]]
            /\ redials' = 0
            /\ idx' = 1
            /\ pc' = "Mail"
            /\ log' = <<>>
            /\ ret' = Pending("Send")
            /\ dasPc' = "sending"
            /\ UNCHANGED dasRet
            /\ UNCHANGED <<d, caller, conns, cur, sender, mailErr, sel,
                           nDials, nSends>>
    /\ UNCHANGED msgs
    /\ UNCHANGED nonDasVars

\* Send: for i, m := range msg { if err := send(s, m); err != nil { return
\* fmt.Errorf("... email %d: %v", i+1, err) } }, up to the s.Send of send.
SendLoopNext ==
    /\ LastReturnedNil
    /\ sendI <= Len(msgs)
    /\ sendI' = sendI + 1
    /\ IF msgs[sendI] = "bad"
       THEN /\ dasEvents' = Append(Returned(dasEvents, "nil"),
                                   [ev |-> "send", i |-> sendI, conn |-> 0,
                                    res |-> "err"])
            /\ dasRet' = [index |-> sendI, err |-> Err("proto", "send", 0)]
            /\ dasPc' = "closing"
            /\ UNCHANGED smtpVars
       ELSE /\ dasEvents' = Append(Returned(dasEvents, "nil"),
                                   [ev |-> "send", i |-> sendI,
                                    conn |-> sender.conn, res |-> "running"])
            /\ sendArgs' = [from |-> "from", to |-> msgs[sendI]]
            /\ redials' = 0
            /\ idx' = 1
            /\ pc' = "Mail"
            /\ log' = <<>>
            /\ ret' = Pending("Send")
            /\ dasPc' = "sending"
            /\ UNCHANGED dasRet
            /\ UNCHANGED <<d, caller, conns, cur, sender, mailErr, sel,
                           nDials, nSends>>
    /\ UNCHANGED msgs
    /\ UNCHANGED nonDasVars

\* s.Send returned an error: send returns it and Send wraps it with i+1.
SendLoopError ==
    /\ dasPc = "sending"
    /\ pc = "ready"
    /\ ret.fn = "Send"
    /\ ret.err.kind \in ErrKinds
    /\ dasRet' = [index |-> sendI - 1, err |-> ret.err]
    /\ dasPc' = "closing"
    /\ dasEvents' = Returned(dasEvents, "err")
    /\ UNCHANGED <<msgs, sendI>>
    /\ UNCHANGED <<smtpVars, nonDasVars>>

\* The loop of Send is over: return nil.
SendLoopEnd ==
    /\ LastReturnedNil
    /\ sendI > Len(msgs)
    /\ dasRet' = [index |-> 0, err |-> Nil]
    /\ dasPc' = "closing"
    /\ dasEvents' = Returned(dasEvents, "nil")
    /\ UNCHANGED <<msgs, sendI>>
    /\ UNCHANGED <<smtpVars, nonDasVars>>

\* A Close that runs only when Send returned nil.
DialAndSendCloseOnSuccess ==
    /\ dasPc = "closing"
    /\ IF dasRet.err = Nil
       THEN /\ log' = <<Entry("Quit", sender.conn, "", "nil")>>
            /\ conns' = [conns EXCEPT ![sender.conn].open = FALSE]
            /\ dasEvents' = Append(dasEvents, [ev |-> "quit", i |-> 0,
                                               conn |-> sender.conn,
                                               res |-> "nil"])
       ELSE UNCHANGED <<log, conns, dasEvents>>
    /\ dasPc' = "done"
    /\ pc' = "idle"
    /\ UNCHANGED <<d, caller, cur, sender, sendArgs, idx, mailErr, redials,
                   sel, ret, nDials, nSends>>
    /\ UNCHANGED <<msgs, sendI, dasRet>>
    /\ UNCHANGED nonDasVars

\* defer s.Close(): c.Quit() on the client the sender holds now; its error
\* is dropped.
DialAndSendClose ==
    /\ dasPc = "closing"
    /\ \E k \in DialErrKinds \cup {"nil"} :
         /\ log' = <<Entry("Quit", sender.conn, "", k)>>
         /\ conns' = IF k = "nil"
                     THEN [conns EXCEPT ![sender.conn].open = FALSE]
                     ELSE conns
    /\ dasEvents' = Append(dasEvents, [ev |-> "quit", i |-> 0,
                                       conn |-> sender.conn, res |-> "nil"])
    /\ dasPc' = "done"
    /\ pc' = "idle"
    /\ UNCHANGED <<d, caller, cur, sender, sendArgs, idx, mailErr, redials,
                   sel, ret, nDials, nSends>>
    /\ UNCHANGED <<msgs, sendI, dasRet>>
    /\ UNCHANGED nonDasVars

InitDialAndSend ==
    /\ d \in Dialers
    /\ pc = "idle"
    /\ caller = "user"
    /\ conns = <<>>
    /\ cur = NoConn
    /\ sender = NoSender
    /\ log = <<>>
    /\ sendArgs = [from |-> "from", to |-> <<>>]
    /\ idx = 1
    /\ mailErr = Nil
    /\ redials = 0
    /\ sel = NoSel
    /\ ret = [fn |-> "", err |-> Nil]
    /\ nDials = 0
    /\ nSends = 0
    /\ msgs \in MsgLists
    /\ sendI = 1
    /\ dasPc = "call"
    /\ dasEvents = <<>>
    /\ dasRet = [index |-> 0, err |-> Nil]
    /\ SendOff
    /\ MailerOff
    /\ WriteOff
    /\ FileOff
    /\ LineOff
    /\ PoolOff
    /\ MsgOff
    /\ BuildOff
    /\ LoginOff

NextDialAndSend ==
    \/ DialAndSend
    \/ DialNetDial
    \/ DialNewClient
    \/ DialHello
    \/ DialExtensionStartTLS
    \/ DialStartTLS
    \/ DialExtensionAuth
    \/ DialAuth
    \/ DialReturn
    \/ DialAndSendDialError
    \/ SendLoopNext
    \/ SendMail
    \/ SendRcpt
    \/ SendData
    \/ SendWriteTo
    \/ SendCloseWriter
    \/ SendLoopError
    \/ SendLoopEnd
    \/ DialAndSendClose

SpecDialAndSend == InitDialAndSend /\ [][NextDialAndSend]_vars

----------------------------------------------------------------------------
(* Claims on DialAndSend and on the loop of Send *)

\* Dial has returned a sender to DialAndSend.
DasDialled == dasPc \in {"sending", "closing", "done"} /\ sender # NoSender

\* DialAndSend has returned after a Dial that failed.
DasDialFailed == dasPc = "done" /\ sender = NoSender

\* The sends DialAndSend has started.
DasSends == SelectSeq(dasEvents, LAMBDA e : e.ev = "send")

\* The sends are attempted in argument order, and Quit is issued after the
\* last attempted send only, once, whatever Send returned; after a failed
\* Dial nothing is issued and the error of Dial is returned.
DasQuitOnceAtEnd ==
    /\ \A k \in DOMAIN dasEvents :
         IF dasEvents[k].ev = "send"
         THEN dasEvents[k].i = k
         ELSE k = Len(dasEvents) /\ dasPc = "done"
    /\ (dasPc = "done" /\ sender # NoSender) =>
          /\ dasEvents # <<>>
          /\ dasEvents[Len(dasEvents)].ev = "quit"
          /\ dasEvents[Len(dasEvents)].conn = sender.conn
    /\ DasDialFailed =>
          /\ dasEvents = <<>>
          /\ conns = <<>> \/ log[Len(log)].op # "Quit"
          /\ dasRet.err = ret.err
          /\ ret.fn = "Dial"
          /\ ret.err.kind \in ErrKinds

C12_SendStopsAtFirstFailure ==
    /\ \A k \in DOMAIN DasSends :
         /\ DasSends[k].i = k
         /\ k < Len(DasSends) => DasSends[k].res = "nil" /\ DasSends[k].conn # 0
    /\ (DasDialled /\ dasPc \in {"closing", "done"}) =>
          IF dasRet.err = Nil
          THEN /\ dasRet.index = 0
               /\ Len(DasSends) = Len(msgs)
               /\ \A k \in DOMAIN DasSends :
                    DasSends[k].res = "nil" /\ DasSends[k].conn # 0
          ELSE /\ dasRet.index = Len(DasSends)
               /\ dasRet.index \in 1..Len(msgs)
               /\ DasSends[dasRet.index].res = "err"

\* Send has returned an error naming the second of two messages, which
\* s.Send refused, after the first was sent.
C12_Witness ==
    /\ dasPc = "closing"
    /\ dasRet.index = 2
    /\ dasRet.err.op = "Rcpt"
    /\ DasSends[1].res = "nil"
    /\ DasSends[2].conn # 0

----------------------------------------------------------------------------
(* The other versions of send. Mailer.Send of part_005:74-160 makes one
   transmission per Bcc address like send above, but takes the header values
   as they are, unparsed. The send of part_009 (and of send.go) parses them
   and makes a single call of s.Send for To, Cc and Bcc together. *)

\* getFrom of part_005:123-133: return from, nil.
mailerGetFrom(h) ==
    LET from == IF HeaderGet(h, "Sender") # <<>> THEN HeaderGet(h, "Sender")
                ELSE HeaderGet(h, "From")
    IN  IF from = <<>> THEN [addr |-> <<>>, err |-> "absent"]
        ELSE [addr |-> from, err |-> "nil"]

\* addAdress of part_005:152-160, over the values of one field.
RECURSIVE mailerAddAdresses(_, _)

mailerAddAdresses(list, addresses) ==
    IF addresses = <<>> THEN list
    ELSE mailerAddAdresses(
             IF \E i \in DOMAIN list : list[i] = Head(addresses)
             THEN list ELSE Append(list, Head(addresses)),
             Tail(addresses))

\* getRecipients of part_005:135-150.
mailerGetRecipients(h) ==
    [recipients |-> mailerAddAdresses(mailerAddAdresses(<<>>, h.To), h.Cc),
     bcc        |-> mailerAddAdresses(<<>>, h.Bcc)]

\* Mailer.Send up to its first m.send; the rest of it is the loop of send.
MailerSend ==
    /\ spc = "mailerStart"
    /\ LET f == mailerGetFrom(header)
           r == mailerGetRecipients(header)
       IN  IF f.err # "nil"
           THEN /\ sendErr' = f.err
                /\ spc' = "done"
                /\ UNCHANGED <<sfrom, recipients, bcc>>
           ELSE /\ sfrom' = f.addr
                /\ recipients' = r.recipients
                /\ bcc' = r.bcc
                /\ spc' = "primary"
                /\ UNCHANGED sendErr
    /\ UNCHANGED <<header, bi, calls>>
    /\ UNCHANGED nonSendVars

\* Message.getFrom of part_009:63-73.
msgGetFrom(h) ==
    IF h.Sender # <<>> THEN parseAddress(h.Sender[1])
    ELSE IF h.From # <<>> THEN parseAddress(h.From[1])
    ELSE [addr |-> <<>>, err |-> "absent"]

\* addAddress of part_009:92-100.
addAddress(list, addr) ==
    IF \E i \in DOMAIN list : list[i] = addr THEN list ELSE Append(list, addr)

\* The loops of Message.getRecipients over the values of To, Cc and Bcc, up
\* to the first error: return nil, err.
RECURSIVE msgAddAll(_, _)

msgAddAll(list, addresses) ==
    IF addresses = <<>> THEN [list |-> list, err |-> "nil"]
    ELSE LET a == parseAddress(Head(addresses)) IN
         IF a.err # "nil" THEN [list |-> <<>>, err |-> a.err]
         ELSE msgAddAll(addAddress(list, a.addr), Tail(addresses))

\* Message.getRecipients of part_009:75-90.
msgGetRecipients(h) == msgAddAll(<<>>, h.To \o h.Cc \o h.Bcc)

\* writeHeaders without "if k != \"Bcc\"".
writeHeadersWithBcc(h) ==
    [lines |-> {<<k, Join(h[k])>> :
                   k \in {f \in {"From", "Sender", "To", "Cc", "Bcc"} :
                             h[f] # <<>>}},
     bcc   |-> <<>>]

\* messageWriter.writeHeaders at depth 0, writeto.go:182-188: the header
\* lines of the message that msg.WriteTo writes for s.Send.
writeHeaders(h) ==
    [lines |-> {<<k, Join(h[k])>> :
                   k \in {f \in {"From", "Sender", "To", "Cc", "Bcc"} :
                             h[f] # <<>> /\ f # "Bcc"}},
     bcc   |-> <<>>]

\* send of part_009 up to s.Send: msg.getFrom(), msg.getRecipients().
sendWriterToResolve ==
    /\ spc = "wstart"
    /\ LET f == msgGetFrom(header)
           r == msgGetRecipients(header)
       IN  IF f.err # "nil"
           THEN /\ sendErr' = f.err
                /\ spc' = "wdone"
                /\ UNCHANGED <<sfrom, recipients>>
           ELSE IF r.err # "nil"
           THEN /\ sendErr' = r.err
                /\ spc' = "wdone"
                /\ UNCHANGED <<sfrom, recipients>>
           ELSE /\ sfrom' = f.addr
                /\ recipients' = r.list
                /\ spc' = "wcall"
                /\ UNCHANGED sendErr
    /\ UNCHANGED <<header, bcc, bi, calls>>
    /\ UNCHANGED nonSendVars

\* s.Send(from, to, msg) is called.
sendWriterToCall ==
    /\ spc = "wcall"
    /\ calls' = Append(calls, [from |-> sfrom, to |-> recipients,
                               h |-> writeHeaders(header),
                               status |-> "running"])
    /\ spc' = "wrunning"
    /\ UNCHANGED <<header, sfrom, recipients, bcc, bi, sendErr>>
    /\ UNCHANGED nonSendVars

\* if err := s.Send(from, to, msg); err != nil { return err }; return nil
sendWriterToReturn ==
    /\ spc = "wrunning"
    /\ \E res \in {"ok", "err"} :
         /\ calls' = [calls EXCEPT ![Len(calls)].status = res]
         /\ sendErr' = IF res = "ok" THEN "nil" ELSE "send"
    /\ spc' = "wdone"
    /\ UNCHANGED <<header, sfrom, recipients, bcc, bi>>
    /\ UNCHANGED nonSendVars

\* A send is called in one of the versions that start at the positions
\* starts.
InitSendAt(starts) ==
    /\ header \in Headers
    /\ spc \in starts
    /\ sfrom = <<>>
    /\ recipients = <<>>
    /\ bcc = <<>>
    /\ bi = 1
    /\ calls = <<>>
    /\ sendErr = "nil"
    /\ SmtpOff
    /\ MailerOff
    /\ DasOff
    /\ WriteOff
    /\ FileOff
    /\ LineOff
    /\ PoolOff
    /\ MsgOff
    /\ BuildOff
    /\ LoginOff

NextSendWriterTo ==
    \/ sendWriterToResolve
    \/ sendWriterToCall
    \/ sendWriterToReturn

\* The send of part_009.
InitSendWriterTo == InitSendAt({"wstart"})

SpecSendWriterTo == InitSendWriterTo /\ [][NextSendWriterTo]_vars

\* The versions of send that parse the addresses: part_008 and part_009.
InitSendParsed == InitSendAt({"start", "wstart"})

NextSendParsed ==
    \/ NextSend
    \/ NextSendWriterTo

SpecSendParsed == InitSendParsed /\ [][NextSendParsed]_vars

\* Every version of send.
InitSendAll == InitSendAt({"start", "mailerStart", "wstart"})

NextSendAll ==
    \/ MailerSend
    \/ NextSend
    \/ NextSendWriterTo

SpecSendAll == InitSendAll /\ [][NextSendAll]_vars

----------------------------------------------------------------------------
(* Claims on the versions of send *)

\* The header value send takes the envelope sender from: the first value of
\* Sender, else the first value of From, else none.
FromValue ==
    IF header.Sender # <<>> THEN header.Sender[1]
    ELSE IF header.From # <<>> THEN header.From[1]
    ELSE <<>>

\* send has returned.
SendDone == spc \in {"done", "wdone"}

\* C13: every call of the Sender has as from the address of the Sender
\* header when there is one, else the address of the From header; with
\* neither header the Sender is never called and send returns the error
\* that From is absent.
C13_EnvelopeSender ==
    /\ \A i \in DOMAIN calls :
         /\ FromValue # <<>>
         /\ calls[i].from = AddrOf(FromValue)
         /\ header.Sender # <<>> => calls[i].from = AddrOf(header.Sender[1])
    /\ (header.Sender = <<>> /\ header.From = <<>>) =>
          /\ calls = <<>>
          /\ SendDone => sendErr = "absent"

\* A message with both a Sender and a From header has been handed to the
\* Sender.
C13_Witness ==
    /\ header.Sender # <<>>
    /\ header.From = <<vF>>
    /\ calls # <<>>
    /\ calls[1].from = <<"s", "@", "x">>

\* A value that does not parse as an address is among the To, Cc and Bcc
\* values or is the value of the envelope sender.
HasMalformedValue ==
    \/ \E f \in {"To", "Cc", "Bcc"} :
         \E i \in DOMAIN header[f] : parseAddress(header[f][i]).err # "nil"
    \/ FromValue # <<>> /\ parseAddress(FromValue).err # "nil"

\* C14 (as claimed): with a malformed value in the message the Sender is
\* never called, and send returns an error, the parse error when the
\* message has an envelope sender.
C14_ParseErrorNoTransmission ==
    HasMalformedValue =>
        /\ calls = <<>>
        /\ SendDone => sendErr # "nil"
        /\ (SendDone /\ FromValue # <<>>) => sendErr = "parse"

C16_FanOutStopsAtFailure ==
    /\ Len(calls) <= 1 + Len(bcc)
    /\ \A k \in DOMAIN calls :
         calls[k].status = "err" =>
             /\ k = Len(calls)
             /\ spc = "done"
             /\ sendErr = "send"
             /\ \A j \in 1..(k - 1) : calls[j].status = "ok"
    /\ (spc = "done" /\ sendErr = "send") =>
          /\ calls # <<>>
          /\ calls[Len(calls)].status = "err"

\* The third transmission of a fan-out has failed after two succeeded.
C16_Witness ==
    /\ spc = "done"
    /\ sendErr = "send"
    /\ Len(calls) = 3
    /\ Len(bcc) = 2
    /\ calls[3].status = "err"

\* C17: the send of part_009 calls the Sender at most once for a message,
\* and once when it returns without a parse error; the call lists the
\* addresses of the To, Cc and Bcc values in that order, each where it
\* first occurs, and its header block has no Bcc line.
C17_SingleCallNoBcc ==
    /\ Len(calls) <= 1
    /\ (spc = "wdone" /\ sendErr \in {"nil", "send"}) => Len(calls) = 1
    /\ \A i \in DOMAIN calls :
         /\ calls[i].to =
               Distinct(Addrs(header.To \o header.Cc \o header.Bcc))
         /\ calls[i].h.bcc = <<>>
         /\ \A line \in calls[i].h.lines : line[1] # "Bcc"

\* A message with Bcc values has been sent with one call.
C17_Witness ==
    /\ spc = "wdone"
    /\ sendErr = "nil"
    /\ Len(header.Bcc) = 2
    /\ header.To # <<>>
    /\ Len(calls) = 1
    /\ Len(calls[1].to) = 3


----------------------------------------------------------------------------
(* Message.WriteTo: src/writeto.go, lines 1 to 247.

   writeMessage writes the header of the message, opens the multipart
   writers the message needs, writes the parts, the embedded files and the
   attachments, and closes the writers.  At depth 0 it writes to the sink
   w.w with writeString, which drops the error of the write; inside a
   multipart writer every write goes through messageWriter.Write, which
   refuses to write once w.err is set.  createPart and writeBody assign
   w.err.  The multipart writers, their parts and the encoders are those of
   the Go library: a part records the error of a failed write, CreatePart
   and Close return that error before writing anything, and CreatePart
   returns a nil writer with an error. *)

MaxParts == 2       \* len(msg.parts)
MaxFiles == 2       \* len(msg.attachments) and len(msg.embedded)

\* QuotedPrintable, Base64 and Unencoded.
Encodings == {"qp", "base64", "unencoded"}

WMessages ==
    [p : 0..MaxParts, a : 0..MaxFiles, e : 0..MaxFiles, enc : Encodings]

hasMixedPartAnyAttachment(m) == m.a > 0

hasMixedPart(m) == (m.p > 0 /\ m.a > 0) \/ m.a > 1

hasRelatedPart(m) == (m.p > 0 /\ m.e > 0) \/ m.e > 1

hasAlternativePart(m) == m.p > 1

\* The messageWriter as one value, so that the steps of one call compose.
TheWriter ==
    [err |-> wErr, n |-> wN, sink |-> sink, writers |-> writers,
     partWriter |-> partWriter]

\* The kinds of the multipart writers open in w, outermost first.
Open(w) == [k \in 1..Len(w.writers) |-> w.writers[k].kind]

\* One write to w.w: ok says whether the sink took it.
SinkWrite(s, ok) ==
    [errored |-> s.errored \/ ~ok, late |-> s.late \/ (s.errored /\ ok),
     bytes |-> s.bytes + (IF ok THEN 1 ELSE 0)]

\* writeString: the error of the write is dropped and w.err is neither read
\* nor set.
writeString(w, ok) ==
    [w EXCEPT !.sink = SinkWrite(@, ok), !.n = @ + (IF ok THEN 1 ELSE 0)]

\* The error messageWriter.Write returns.
WriteError(w, ok) ==
    IF w.err # "nil" THEN "inError" ELSE IF ok THEN "nil" ELSE "sink"

\* messageWriter.Write.
Write(w, ok) ==
    IF w.err # "nil"
    THEN w
    ELSE [w EXCEPT !.err = IF ok THEN "nil" ELSE "sink",
                   !.sink = SinkWrite(@, ok),
                   !.n = @ + (IF ok THEN 1 ELSE 0)]

\* A write through w.partWriter, a part of w.writers[w.depth-1]: the part
\* passes it to messageWriter.Write and records the error.
partWrite(w, ok) ==
    LET n == Len(w.writers)
        e == WriteError(w, ok)
    IN  [Write(w, ok) EXCEPT !.writers[n].we = IF e # "nil" THEN e ELSE @]

\* createPart: CreatePart returns the error the last part recorded, or
\* writes the boundary and the header of the new part.
createPart(w, ok) ==
    LET n  == Len(w.writers)
        we == w.writers[n].we
        e  == IF we # "nil" THEN we ELSE WriteError(w, ok)
        w1 == IF we # "nil" THEN w ELSE Write(w, ok)
    IN  IF e = "nil"
        THEN [w1 EXCEPT !.partWriter = "part", !.err = "nil"]
        ELSE [w1 EXCEPT !.partWriter = "nil", !.err = e]

openMultipart(w, mimeType, ok) ==
    LET w1 == IF Len(w.writers) = 0 THEN writeString(w, ok)
              ELSE createPart(w, ok)
    IN  [w1 EXCEPT !.writers = Append(@, [kind |-> mimeType, we |-> "nil"])]

closeMultipartKeepsDepth(w, ok) ==
    IF Len(w.writers) > 0
    THEN IF w.writers[Len(w.writers)].we # "nil" THEN w ELSE Write(w, ok)
    ELSE w

\* closeMultipart: Close returns the error the last part recorded or writes
\* the closing boundary; its error is dropped.
closeMultipart(w, ok) ==
    IF Len(w.writers) > 0
    THEN LET n  == Len(w.writers)
             w1 == IF w.writers[n].we # "nil" THEN w ELSE Write(w, ok)
         IN  [w1 EXCEPT !.writers = SubSeq(@, 1, n - 1)]
    ELSE w

\* writeHeaders for the header of a part or of a file.
writePartHeaders(w, ok) ==
    IF Len(w.writers) = 0 THEN writeString(w, ok) ELSE createPart(w, ok)

\* A write to subWriter of writeBody, and the error it returns.  At depth 0
\* subWriter is w.w itself, so the write does not pass by w.n.
subWrite(w, ok) ==
    IF Len(w.writers) = 0
    THEN [w EXCEPT !.sink = SinkWrite(@, ok)]
    ELSE partWrite(w, ok)

subWriteError(w, ok) ==
    IF Len(w.writers) = 0 THEN (IF ok THEN "nil" ELSE "sink")
    ELSE WriteError(w, ok)

\* What one run of a copier and of the encoder around it does: copy says
\* whether a write reaches subWriter while f runs and whether it succeeds,
\* producer whether f fails by itself, flush what the Close of the encoder
\* writes.  The quoted-printable writer always writes in Close, and without
\* an encoder there is no Close.
Copies ==
    [copy : {"none", "ok", "fail"}, producer : BOOLEAN,
     flush : {"none", "ok", "fail"}]

CopiesOf(enc) ==
    {c \in Copies : /\ enc = "unencoded" => c.flush = "none"
                    /\ enc = "qp" => c.flush # "none"}

\* f(wc) and "w.err = f(wc)": the copiers of the package return the error of
\* the write; base64LineWriter returns nil whatever the write returned.
copyReturns(w, enc, c) ==
    IF c.producer THEN "producer"
    ELSE IF c.copy = "none" \/ enc = "base64" THEN "nil"
    ELSE subWriteError(w, c.copy = "ok")

\* writeBody: the writers it can leave, and whether it panics because
\* subWriter is the nil w.partWriter and something is written to it.
writeBody(w, enc) ==
    LET w0s == IF Len(w.writers) = 0
               THEN {writeString(w, ok) : ok \in BOOLEAN}
               ELSE {w}
        one(w0, c) ==
            LET w1 == IF c.copy = "none" THEN w0
                      ELSE subWrite(w0, c.copy = "ok")
                w2 == [w1 EXCEPT !.err = copyReturns(w0, enc, c),
                                 !.sink.errored = @ \/ c.producer]
                w3 == IF c.flush = "none" THEN w2
                      ELSE subWrite(w2, c.flush = "ok")
            IN  IF /\ Len(w0.writers) > 0
                   /\ w0.partWriter = "nil"
                   /\ (c.copy # "none" \/ c.flush # "none")
                THEN [w |-> w0, panic |-> TRUE]
                ELSE [w |-> w3, panic |-> FALSE]
    IN  {one(w0, c) : w0 \in w0s, c \in CopiesOf(enc)}

\* The entry of wTrace for one step of writeMessage.
Step(op, kind, i, inside) ==
    [op |-> op, kind |-> kind, i |-> i, inside |-> inside]

\* The writer of the next state.
SetWriter(w) ==
    /\ wErr' = w.err
    /\ wN' = w.n
    /\ sink' = w.sink
    /\ writers' = w.writers
    /\ partWriter' = w.partWriter

\* Where writeMessage goes after the three openMultipart, after the parts
\* and after the embedded files.
AfterOpens == IF wMsg.p > 0 THEN "parts" ELSE "closeAlternative"

AfterAlternative == IF wMsg.e > 0 THEN "embedded" ELSE "closeRelated"

AfterRelated == IF wMsg.a > 0 THEN "attachments" ELSE "closeMixed"

\* Mime-Version, Date and writeHeaders(msg.header).
writeMessageHeader ==
    /\ wPc = "header"
    /\ \E o1, o2 \in BOOLEAN :
          SetWriter(writeString(writeString(TheWriter, o1), o2))
    /\ wPc' = "openMixed"
    /\ UNCHANGED <<wMsg, wI, wTrace, wRet, wRetN>>
    /\ UNCHANGED nonWriteVars

\* "if msg.has...Part() { w.openMultipart(...) }"
writeMessageOpen(at, has, mimeType, next) ==
    /\ wPc = at
    /\ IF has
       THEN /\ \E ok \in BOOLEAN :
                  SetWriter(openMultipart(TheWriter, mimeType, ok))
            /\ wTrace' = Append(wTrace,
                                Step("open", mimeType, 0, Open(TheWriter)))
       ELSE UNCHANGED <<wErr, wN, sink, writers, partWriter, wTrace>>
    /\ wPc' = next
    /\ UNCHANGED <<wMsg, wI, wRet, wRetN>>
    /\ UNCHANGED nonWriteVars

writeMessageOpenMixed ==
    writeMessageOpen("openMixed", hasMixedPart(wMsg), "mixed", "openRelated")

writeMessageOpenRelated ==
    writeMessageOpen("openRelated", hasRelatedPart(wMsg), "related",
                     "openAlternative")

writeMessageOpenAlternative ==
    writeMessageOpen("openAlternative", hasAlternativePart(wMsg),
                     "alternative", AfterOpens)

\* One turn of a loop of writeMessage or of addFiles: writeHeaders and
\* writeBody.
writeOne(at, op, n, enc, next) ==
    /\ wPc = at
    /\ wI <= n
    /\ \E ok \in BOOLEAN :
          \E r \in writeBody(writePartHeaders(TheWriter, ok), enc) :
             /\ SetWriter(r.w)
             /\ wPc' = IF r.panic THEN "panicked"
                       ELSE IF wI = n THEN next ELSE at
    /\ wI' = IF wI = n THEN 1 ELSE wI + 1
    /\ wTrace' = Append(wTrace, Step(op, "", wI, Open(TheWriter)))
    /\ UNCHANGED <<wMsg, wRet, wRetN>>
    /\ UNCHANGED nonWriteVars

writeMessagePart ==
    writeOne("parts", "part", wMsg.p, wMsg.enc, "closeAlternative")

addFilesEmbedded ==
    writeOne("embedded", "embedded", wMsg.e, "base64", "closeRelated")

addFilesAttachments ==
    writeOne("attachments", "attachment", wMsg.a, "base64", "closeMixed")

\* "if msg.has...Part() { w.closeMultipart() }"
writeMessageClose(at, has, next) ==
    /\ wPc = at
    /\ IF has
       THEN /\ \E ok \in BOOLEAN : SetWriter(closeMultipart(TheWriter, ok))
            /\ wTrace' =
                  Append(wTrace,
                         Step("close",
                              IF writers = <<>> THEN ""
                              ELSE writers[Len(writers)].kind,
                              0, Open(TheWriter)))
       ELSE UNCHANGED <<wErr, wN, sink, writers, partWriter, wTrace>>
    /\ wPc' = next
    /\ UNCHANGED <<wMsg, wI, wRet, wRetN>>
    /\ UNCHANGED nonWriteVars

writeMessageCloseAlternative ==
    writeMessageClose("closeAlternative", hasAlternativePart(wMsg),
                      AfterAlternative)

writeMessageCloseRelated ==
    writeMessageClose("closeRelated", hasRelatedPart(wMsg), AfterRelated)

writeMessageCloseMixed ==
    writeMessageClose("closeMixed", hasMixedPart(wMsg), "return")

\* "return mw.n, mw.err"
WriteTo ==
    /\ wPc = "return"
    /\ wRet' = wErr
    /\ wRetN' = wN
    /\ wPc' = "done"
    /\ UNCHANGED <<wMsg, wI, writers, partWriter, wErr, wN, sink, wTrace>>
    /\ UNCHANGED nonWriteVars

InitWriteTo ==
    /\ wMsg \in WMessages
    /\ wPc = "header"
    /\ wI = 1
    /\ writers = <<>>
    /\ partWriter = "nil"
    /\ wErr = "nil"
    /\ wN = 0
    /\ sink = [errored |-> FALSE, late |-> FALSE, bytes |-> 0]
    /\ wTrace = <<>>
    /\ wRet = "nil"
    /\ wRetN = 0
    /\ SmtpOff
    /\ SendOff
    /\ MailerOff
    /\ DasOff
    /\ FileOff
    /\ LineOff
    /\ PoolOff
    /\ MsgOff
    /\ BuildOff
    /\ LoginOff

NextWriteTo ==
    \/ writeMessageHeader
    \/ writeMessageOpenMixed
    \/ writeMessageOpenRelated
    \/ writeMessageOpenAlternative
    \/ writeMessagePart
    \/ writeMessageCloseAlternative
    \/ addFilesEmbedded
    \/ writeMessageCloseRelated
    \/ addFilesAttachments
    \/ writeMessageCloseMixed
    \/ WriteTo

SpecWriteTo == InitWriteTo /\ [][NextWriteTo]_vars


----------------------------------------------------------------------------
(* Claims on Message.WriteTo *)

\* The entries of wTrace of one operation.
StepsOf(op) == {k \in DOMAIN wTrace : wTrace[k].op = op}

\* The kinds of the wrappers writeMessage has opened.
Opened == {wTrace[k].kind : k \in StepsOf("open")}

\* writeMessage is past its three openMultipart.
PastOpens ==
    wPc \notin {"off", "header", "openMixed", "openRelated",
                "openAlternative"}

\* The wrappers a message with p parts, a attachments and e embedded files
\* needs.
Wrappers(p, a, e) ==
    (IF (p >= 1 /\ a >= 1) \/ a >= 2 THEN {"mixed"} ELSE {})
    \cup (IF (p >= 1 /\ e >= 1) \/ e >= 2 THEN {"related"} ELSE {})
    \cup (IF p >= 2 THEN {"alternative"} ELSE {})

\* C18: for a message with p body parts, a attachments and e embedded
\* files, the renderer opens a mixed wrapper exactly when (p >= 1 and
\* a >= 1) or a >= 2, a related wrapper exactly when (p >= 1 and e >= 1) or
\* e >= 2, an alternative wrapper exactly when p >= 2, each at most once,
\* and no other wrapper.
C18_WrappersOpened ==
    /\ Opened \subseteq Wrappers(wMsg.p, wMsg.a, wMsg.e)
    /\ PastOpens => Opened = Wrappers(wMsg.p, wMsg.a, wMsg.e)
    /\ \A j, k \in StepsOf("open") :
          wTrace[j].kind = wTrace[k].kind => j = k

\* A message of two attachments and one embedded file, without a part, has
\* been rendered with the mixed wrapper alone.
C18_Witness ==
    /\ wPc = "done"
    /\ wMsg.p = 0 /\ wMsg.a = 2 /\ wMsg.e = 1
    /\ Opened = {"mixed"}


\* mixed is the outermost wrapper, alternative the innermost.
Rank(kind) ==
    CASE kind = "mixed" -> 1
      [] kind = "related" -> 2
      [] kind = "alternative" -> 3
      [] OTHER -> 0

\* The kinds opened, and those closed, before entry k of wTrace.
OpenedBefore(k) == {wTrace[j].kind : j \in {i \in StepsOf("open") : i < k}}

ClosedBefore(k) == {wTrace[j].kind : j \in {i \in StepsOf("close") : i < k}}

\* The wrappers open at entry k according to the entries before it,
\* outermost first.
NestingAt(k) ==
    SelectSeq(<<"mixed", "related", "alternative">>,
              LAMBDA kind : kind \in OpenedBefore(k) \ ClosedBefore(k))

\* C19: wrappers are opened in the order mixed, related, alternative and
\* closed in the reverse order, each close closing the innermost open
\* wrapper; the body parts are written with every wrapper of the message
\* open and none closed; the embedded files after alternative is closed and
\* before related and mixed are; the attachments after alternative and
\* related are closed and before mixed is; no wrapper is closed twice, and
\* when writeMessage returns every opened wrapper has been closed and the
\* depth is 0.
C19_NestingOrder ==
    /\ \A j, k \in StepsOf("open") :
          j < k => Rank(wTrace[j].kind) < Rank(wTrace[k].kind)
    /\ \A j, k \in StepsOf("close") :
          j < k => Rank(wTrace[j].kind) > Rank(wTrace[k].kind)
    /\ \A k \in DOMAIN wTrace : wTrace[k].inside = NestingAt(k)
    /\ \A k \in StepsOf("close") :
          /\ wTrace[k].inside # <<>>
          /\ wTrace[k].kind = wTrace[k].inside[Len(wTrace[k].inside)]
    /\ \A k \in StepsOf("part") :
          /\ OpenedBefore(k) = Wrappers(wMsg.p, wMsg.a, wMsg.e)
          /\ ClosedBefore(k) = {}
    /\ \A k \in StepsOf("embedded") :
          ClosedBefore(k) = OpenedBefore(k) \cap {"alternative"}
    /\ \A k \in StepsOf("attachment") :
          ClosedBefore(k) = OpenedBefore(k) \cap {"alternative", "related"}
    /\ Len(writers) = Cardinality(Opened) - Cardinality(StepsOf("close"))
    /\ wPc \in {"return", "done"} =>
          /\ writers = <<>>
          /\ \A kind \in Opened :
                Cardinality({k \in StepsOf("close") :
                                wTrace[k].kind = kind}) = 1

\* A message that needs the three wrappers has been rendered: two parts,
\* an embedded file and an attachment written, three wrappers closed.
C19_Witness ==
    /\ wPc = "done"
    /\ Opened = {"mixed", "related", "alternative"}
    /\ Cardinality(StepsOf("close")) = 3
    /\ Cardinality(StepsOf("part")) = 2
    /\ StepsOf("embedded") # {}
    /\ StepsOf("attachment") # {}


\* C20: once a write to the sink has failed or a copier has returned an
\* error, w.err is set and stays set, no further bytes reach the sink, and
\* WriteTo returns an error.
C20_ErrorIsTerminal ==
    sink.errored =>
        /\ wErr # "nil"
        /\ ~sink.late
        /\ wPc = "done" => wRet # "nil"


\* C21: the count WriteTo returns is the number of bytes the render wrote to
\* the sink, for every message shape.
C21_CountIsBytesWritten == wPc = "done" => wRetN = sink.bytes

\* The entries of wTrace that write a leaf part: a body part, an embedded
\* file or an attachment.
LeafSteps == StepsOf("part") \cup StepsOf("embedded") \cup StepsOf("attachment")

\* C34: when a message has two or more leaf parts (body parts, embedded
\* files and attachments together), each of them is written with a multipart
\* wrapper open, so that none is written at depth 0.
C34_LeafPartsWrapped ==
    wMsg.p + wMsg.a + wMsg.e >= 2 =>
        \A k \in LeafSteps : wTrace[k].inside # <<>>



----------------------------------------------------------------------------
(* The render and the message it is given: what newMessageWriter and
   addFiles read and write of the Message and of its File objects.

   Three versions of addFiles are in the sources: the one of
   src/writeto.go:112-144 fills f.Header with the defaults and writes
   f.Header; the one of src/writeto.go:358-376 and the one of
   src/unnamed/part_004:120-134 build a new map for each file.  Attach and
   Embed take *File, so one File object can be in both lists.  Header maps
   and File objects are kept by reference: rMaps and files are the heap. *)

MaxFileObjs == 2    \* File objects of the caller

\* A header value: <<>> when the field is absent.
Absent == <<>>

NoFields == [ct |-> Absent, cte |-> Absent, cd |-> Absent, cid |-> Absent]

\* The File objects a caller can make for each version: a Content-Type and
\* a Content-ID of its own in Header, or a ContentID.
FilesOf(impl) ==
    LET name(k) == IF k = 1 THEN "a.jpg" ELSE IF k = 2 THEN "b.jpg"
                   ELSE "c.jpg"
        objs(k) ==
            CASE impl = "header" ->
                   {[Name |-> name(k),
                     Header |-> [NoFields EXCEPT !.ct = ct, !.cid = cid],
                     ContentID |-> ""] :
                       ct \in {Absent, <<"custom">>},
                       cid \in {Absent, <<"<", "own", ">">>}}
              [] impl = "contentID" ->
                   {[Name |-> name(k), Header |-> NoFields,
                     ContentID |-> c] : c \in {"", "own"}}
              [] OTHER ->
                   {[Name |-> name(k), Header |-> NoFields,
                     ContentID |-> ""]}
    IN  {fs \in UNION {[1..n -> UNION {objs(k) : k \in 1..n}] :
                          n \in 0..MaxFileObjs} :
            \A k \in DOMAIN fs : fs[k] \in objs(k)}

\* The lists Embed and Attach can make of n File objects, no object twice
\* in one list.
FileLists(n) ==
    {l \in UNION {[1..m -> 1..n] : m \in 0..n} :
        \A j, k \in DOMAIN l : l[j] = l[k] => j = k}

\* "<" + s + ">"
Bracket(s) == <<"<", s, ">">>

\* f.Header after the setHeader calls of addFiles, src/writeto.go:114-140.
addFilesSetHeader(f, isAttachment) ==
    [ct  |-> IF f.Header.ct = Absent THEN <<"type", f.Name>>
             ELSE f.Header.ct,
     cte |-> IF f.Header.cte = Absent THEN <<"base64">> ELSE f.Header.cte,
     cd  |-> IF f.Header.cd = Absent
             THEN <<IF isAttachment THEN "attachment" ELSE "inline", f.Name>>
             ELSE f.Header.cd,
     cid |-> IF ~isAttachment /\ f.Header.cid = Absent THEN Bracket(f.Name)
             ELSE f.Header.cid]

\* h of addFiles, src/writeto.go:360-372.
addFilesNewHeader(f, isAttachment) ==
    [ct  |-> <<"type", f.Name>>,
     cte |-> <<"base64">>,
     cd  |-> <<IF isAttachment THEN "attachment" ELSE "inline", f.Name>>,
     cid |-> IF isAttachment THEN Absent
             ELSE IF f.ContentID # "" THEN Bracket(f.ContentID)
             ELSE Bracket(f.Name)]

\* h of addFiles, src/unnamed/part_004:122-130.
addFilesExportHeader(f, isAttachment) ==
    [ct  |-> <<"type", f.Name>>,
     cte |-> <<"base64">>,
     cd  |-> <<IF isAttachment THEN "attachment" ELSE "inline", f.Name>>,
     cid |-> IF isAttachment THEN Absent ELSE Bracket(f.Name)]

\* newMessageWriter copies msg.header into a new map and sets Mime-Version
\* and Date in it; openMultipart and writeHeader at depth 0 set the
\* Content-Type in it.
newMessageWriter ==
    /\ rHeader' = 2
    /\ rMaps' = Append(rMaps, rMaps[1] \cup {"Mime-Version", "Date",
                                              "Content-Type"})

\* The start of Export (part_004) and of writeMessage (writeto.go), which
\* writes the lines of msg.header and sets nothing in it.
renderHeader ==
    /\ rPc = "start"
    /\ IF rImpl = "export" THEN newMessageWriter
       ELSE UNCHANGED <<rHeader, rMaps>>
    /\ rPc' = IF embedded # <<>> THEN "embedded"
              ELSE IF attachments # <<>> THEN "attachments" ELSE "return"
    /\ UNCHANGED <<rImpl, files, embedded, attachments, rI, rParts, rBefore>>
    /\ UNCHANGED nonFileVars

\* One turn of "for _, f := range files" of addFiles.
addFilesTurn(list, isAttachment, at, next) ==
    /\ rPc = at
    /\ rI <= Len(list)
    /\ LET f == files[list[rI]]
           h == CASE rImpl = "header" -> addFilesSetHeader(f, isAttachment)
                  [] rImpl = "contentID" ->
                        addFilesNewHeader(f, isAttachment)
                  [] OTHER -> addFilesExportHeader(f, isAttachment)
       IN  /\ files' = IF rImpl = "header"
                       THEN [files EXCEPT ![list[rI]].Header = h]
                       ELSE files
           /\ rParts' = Append(rParts,
                               [attachment |-> isAttachment,
                                file |-> list[rI], header |-> h])
    /\ rI' = IF rI = Len(list) THEN 1 ELSE rI + 1
    /\ rPc' = IF rI = Len(list) THEN next ELSE at
    /\ UNCHANGED <<rImpl, embedded, attachments, rMaps, rHeader, rBefore>>
    /\ UNCHANGED nonFileVars

addFilesInline ==
    addFilesTurn(embedded, FALSE, "embedded",
                 IF attachments # <<>> THEN "attachments" ELSE "return")

addFilesAttached == addFilesTurn(attachments, TRUE, "attachments", "return")

\* Export or WriteTo returns.
renderReturn ==
    /\ rPc = "return"
    /\ rPc' = "done"
    /\ UNCHANGED <<rImpl, files, embedded, attachments, rMaps, rHeader, rI,
                   rParts, rBefore>>
    /\ UNCHANGED nonFileVars

InitRender ==
    /\ rImpl \in {"header", "contentID", "export"}
    /\ files \in FilesOf(rImpl)
    /\ embedded \in FileLists(Len(files))
    /\ attachments \in FileLists(Len(files))
    /\ rMaps \in {<<h>> : h \in SUBSET {"Mime-Version", "Date"}}
    /\ rHeader = 1
    /\ rPc = "start"
    /\ rI = 1
    /\ rParts = <<>>
    /\ rBefore = [files |-> files, header |-> rMaps[1]]
    /\ SmtpOff
    /\ SendOff
    /\ MailerOff
    /\ DasOff
    /\ WriteOff
    /\ LineOff
    /\ PoolOff
    /\ MsgOff
    /\ BuildOff
    /\ LoginOff

NextRender ==
    \/ renderHeader
    \/ addFilesInline
    \/ addFilesAttached
    \/ renderReturn

SpecRender == InitRender /\ [][NextRender]_vars

\* C22: a render leaves the Message as it was: msg.header, and the Name and
\* the Header of every File of the message.
C22_RenderLeavesMessage ==
    rPc # "off" =>
        /\ rMaps[1] = rBefore.header
        /\ files = rBefore.files


\* The Content-ID the caller gave the File object k, if any.
OwnContentID(k) ==
    LET f == rBefore.files[k]
    IN  IF f.Header.cid # Absent THEN f.Header.cid
        ELSE IF f.ContentID # "" THEN Bracket(f.ContentID)
        ELSE Absent

\* C23: each embedded file part carries a Content-ID, the one the caller set
\* if any and <file name> otherwise, and an attachment part carries no
\* Content-ID but one the caller set; whatever the lists are, and also when
\* one File object is in both.
C23_ContentID ==
    \A k \in DOMAIN rParts :
        LET part == rParts[k]
            own  == OwnContentID(part.file)
        IN  IF part.attachment
            THEN part.header.cid # Absent => part.header.cid = own
            ELSE part.header.cid =
                    IF own # Absent THEN own
                    ELSE Bracket(rBefore.files[part.file].Name)


----------------------------------------------------------------------------
(* The line writers: base64LineWriter of src/writeto.go:220-244 (the same in
   src/unnamed/part_004:181-205) and qpLineWriter of
   src/unnamed/part_004:207-258.

   Bytes are their codes.  A Write is given p and, as Go slices have it, the
   bytes of the array of p beyond len(p): p[:k] with k beyond cap(p) panics,
   and with k between len(p) and cap(p) it reads them. *)

maxLineLen == 76

MaxInput == 160     \* bytes given to a base64LineWriter
MinRun == 72        \* the shortest and the longest run of '0' that begins
MaxRun == 78        \* an input of a qpLineWriter
MaxAfter == 6       \* the '0' that end it

CR == 13
LF == 10
EQ == 61            \* '='
HEX == 67           \* 'C', a digit of an escape
ZERO == 48          \* '0'

CRLF == <<CR, LF>>

\* What one Write leaves: the bytes written to w.w, w.lineLen, what it
\* returns, and whether it panicked.
Wrote(o, l, n, panicked) ==
    [out |-> o, lineLen |-> l, ret |-> n, panic |-> panicked]

RECURSIVE base64WriteNoReset(_, _, _, _)
base64WriteNoReset(p, l, o, n) ==
    IF Len(p) + l > maxLineLen
    THEN base64WriteNoReset(SubSeq(p, maxLineLen - l + 1, Len(p)),
                            maxLineLen - 1,
                            o \o SubSeq(p, 1, maxLineLen - l) \o CRLF,
                            n + (maxLineLen - l))
    ELSE Wrote(o \o p, l + Len(p), n + Len(p), FALSE)

\* base64LineWriter.Write(p) with w.lineLen = l, after o was written and n
\* counted.
RECURSIVE base64Write(_, _, _, _)
base64Write(p, l, o, n) ==
    IF Len(p) + l > maxLineLen
    THEN base64Write(SubSeq(p, maxLineLen - l + 1, Len(p)),
                     0,
                     o \o SubSeq(p, 1, maxLineLen - l) \o CRLF,
                     n + (maxLineLen - l))
    ELSE Wrote(o \o p, l + Len(p), n + Len(p), FALSE)

\* The chunks of input cut at c, the second a slice of the same array as
\* the first when shared is true.
CutAt(input, c, shared) ==
    <<[p |-> SubSeq(input, 1, c),
       spare |-> IF shared THEN SubSeq(input, c + 1, Len(input)) ELSE <<>>],
      [p |-> SubSeq(input, c + 1, Len(input)), spare |-> <<>>]>>

\* Base64 text: letters, each unlike its neighbours.
Base64Input(n) == [k \in 1..n |-> 65 + (k % 26)]

Base64Chunkings(longest) ==
    UNION {{CutAt(Base64Input(n), c, FALSE) : c \in 0..n} :
              n \in 0..longest}

\* One Write of the line writer.
lineWriterWrite(kind, r) ==
    /\ lwKind = kind
    /\ lwPc = "write"
    /\ chunks # <<>>
    /\ out' = r.out
    /\ lineLen' = r.lineLen
    /\ rets' = IF r.panic THEN rets ELSE Append(rets, r.ret)
    /\ written' = Append(written, Head(chunks).p)
    /\ chunks' = Tail(chunks)
    /\ lwPc' = IF r.panic THEN "panicked"
               ELSE IF Len(chunks) = 1 THEN "done" ELSE "write"
    /\ UNCHANGED lwKind
    /\ UNCHANGED nonLineVars

base64LineWriterWrite ==
    /\ chunks # <<>>
    /\ lineWriterWrite("base64", base64Write(Head(chunks).p, lineLen, out, 0))

InitLineWriter(kind, chunkings) ==
    /\ lwKind = kind
    /\ chunks \in chunkings
    /\ written = <<>>
    /\ lineLen = 0
    /\ out = <<>>
    /\ rets = <<>>
    /\ lwPc = "write"
    /\ SmtpOff
    /\ SendOff
    /\ MailerOff
    /\ DasOff
    /\ WriteOff
    /\ FileOff
    /\ PoolOff
    /\ MsgOff
    /\ BuildOff
    /\ LoginOff

InitBase64LineWriter == InitLineWriter("base64", Base64Chunkings(MaxInput))

NextBase64LineWriter == base64LineWriterWrite

SpecBase64LineWriter ==
    InitBase64LineWriter /\ [][NextBase64LineWriter]_vars

\* bytes.IndexAny(s, "\n"), counted from 0.
IndexLF(s) ==
    IF \E k \in DOMAIN s : s[k] = LF
    THEN (CHOOSE k \in DOMAIN s :
             s[k] = LF /\ \A j \in 1..(k - 1) : s[j] # LF) - 1
    ELSE -1

\* qpLineWriter.Write(p) with w.lineLen = l, after o was written and n
\* counted; spare are the bytes of the array of p beyond len(p).  The
\* indices of the code count from 0, those of the operator from 1.
RECURSIVE qpWrite(_, _, _, _, _)
qpWrite(p, spare, l, o, n) ==
    LET room == maxLineLen - l
        arr  == p \o spare
        \* "w.w.Write(p[:i+1]); p = p[i+1:]; n += i + 1; w.lineLen = 0"
        endOfLine(i) ==
            IF i + 1 > Len(p)
            THEN Wrote(o \o SubSeq(arr, 1, i + 1), l, n, TRUE)
            ELSE qpWrite(SubSeq(p, i + 2, Len(p)), spare, 0,
                         o \o SubSeq(p, 1, i + 1), n + i + 1)
        toWrite ==
            IF room - 2 >= 0 /\ p[room - 1] = EQ THEN room - 2
            ELSE IF p[room] = EQ THEN room - 1
            ELSE room
        softBreak ==
            qpWrite(SubSeq(p, toWrite + 1, Len(p)), spare, 0,
                    o \o SubSeq(p, 1, toWrite) \o <<EQ, CR, LF>>,
                    n + toWrite)
    IN  IF Len(p) = 0 THEN Wrote(o, l, n, FALSE)
        ELSE IF Len(p) < room
        THEN Wrote(o \o p, l + Len(p), n + Len(p), FALSE)
        ELSE IF room + 2 > Len(arr)
        THEN Wrote(o, l, n, TRUE)      \* p[:maxLineLen-w.lineLen+2]
        ELSE LET i == IndexLF(SubSeq(arr, 1, room + 2))
             IN  IF i = -1 THEN softBreak
                 ELSE IF i # room + 1 THEN endOfLine(i)
                 ELSE IF Len(p) < i THEN Wrote(o, l, n, TRUE)   \* p[i-1]
                 ELSE IF p[i] = CR THEN endOfLine(i)
                 ELSE softBreak

Zeros(n) == [k \in 1..n |-> ZERO]

\* What follows the first run of an input: nothing, an escape, a CRLF or
\* a bare LF.
QpTokens == {<<>>, <<EQ, HEX, HEX>>, CRLF, <<LF>>}

QpInputs(after) ==
    {Zeros(a) \o t \o Zeros(b) :
        a \in MinRun..MaxRun, t \in QpTokens, b \in 0..after}

QpChunkings(inputs) ==
    UNION {{CutAt(input, c, shared) :
               c \in 0..Len(input), shared \in BOOLEAN} :
              input \in inputs}

qpLineWriterWrite ==
    /\ chunks # <<>>
    /\ lineWriterWrite("qp",
                       qpWrite(Head(chunks).p, Head(chunks).spare, lineLen,
                               out, 0))

InitQpLineWriter == InitLineWriter("qp", QpChunkings(QpInputs(MaxAfter)))

NextQpLineWriter == qpLineWriterWrite

SpecQpLineWriter == InitQpLineWriter /\ [][NextQpLineWriter]_vars

InitLineWriters == InitBase64LineWriter \/ InitQpLineWriter

NextLineWriters ==
    \/ base64LineWriterWrite
    \/ qpLineWriterWrite

SpecLineWriters == InitLineWriters /\ [][NextLineWriters]_vars

----------------------------------------------------------------------------
(* Claims on the line writers *)

\* The bytes of the Write calls made so far, in order.
RECURSIVE Concat(_)
Concat(ps) == IF ps = <<>> THEN <<>> ELSE Head(ps) \o Concat(Tail(ps))

IsBreakByte(b) == b = CR \/ b = LF

\* The positions of out where a CRLF begins.
Breaks == {k \in 1..(Len(out) - 1) : out[k] = CR /\ out[k + 1] = LF}

\* The bytes of out since its last CRLF.
SinceBreak ==
    LET last == IF Breaks = {} THEN 0
                ELSE (CHOOSE k \in Breaks : \A j \in Breaks : j <= k) + 1
    IN  Len(out) - last

\* C24: base64LineWriter emits lines of at most 76 bytes between CRLFs,
\* inserts nothing but CRLF, the output without its CRLFs is the input in
\* order, and each Write returns the number of bytes it was given; whatever
\* the column the Write begins at.
C24_Base64Lines ==
    lwKind = "base64" /\ lwPc # "off" =>
        /\ \A k \in 1..Len(out) :
              k + maxLineLen <= Len(out) =>
                 \E j \in k..(k + maxLineLen) : IsBreakByte(out[j])
        /\ \A k \in 1..Len(out) :
              /\ out[k] = CR => k < Len(out) /\ out[k + 1] = LF
              /\ out[k] = LF => k > 1 /\ out[k - 1] = CR
        /\ SelectSeq(out, LAMBDA b : ~IsBreakByte(b)) = Concat(written)
        /\ \A k \in DOMAIN rets : rets[k] = Len(written[k])
        /\ lineLen = SinceBreak

\* Two Writes are done, the first ended in the middle of a line, and the
\* output has two CRLFs.
C24_Witness ==
    /\ lwKind = "base64"
    /\ lwPc = "done"
    /\ Len(written[1]) \in 1..(maxLineLen - 1)
    /\ Cardinality(Breaks) = 2


\* C25: qpLineWriter puts no line break between an '=' and the two
\* characters of its escape: in the output every '=' is followed by the two
\* characters of an escape or, being a soft break, by CRLF.
C25_EscapesContiguous ==
    lwKind = "qp" =>
        \A k \in 1..Len(out) :
            out[k] = EQ =>
               /\ k + 1 <= Len(out) => out[k + 1] \in {HEX, CR}
               /\ k + 2 <= Len(out) =>
                     \/ out[k + 1] = HEX /\ out[k + 2] = HEX
                     \/ out[k + 1] = CR /\ out[k + 2] = LF

\* C26: no line written by qpLineWriter is longer than 76 characters,
\* the '=' of a soft break counted: any 77 bytes of the output in a row
\* hold a line break.
C26_QpLineLimit ==
    lwKind = "qp" =>
        \A k \in 1..Len(out) :
            k + maxLineLen <= Len(out) =>
               \E j \in k..(k + maxLineLen) : IsBreakByte(out[j])

\* The bytes of out since its last LF.
SinceLF ==
    LET lfs == {k \in 1..Len(out) : out[k] = LF}
    IN  Len(out) - (IF lfs = {} THEN 0
                    ELSE CHOOSE k \in lfs : \A j \in lfs : j <= k)

\* C27: after every Write of qpLineWriter, lineLen is the number of bytes
\* emitted since the last line break of the output.
C27_QpColumn ==
    lwKind = "qp" /\ lwPc \in {"write", "done"} => lineLen = SinceLF

\* The output of one Write of all the bytes written so far.
SingleWrite ==
    IF lwKind = "base64"
    THEN base64Write(Concat(written), 0, <<>>, 0)
    ELSE qpWrite(Concat(written), <<>>, 0, <<>>, 0)

\* C28: the bytes a line writer emits for an input cut into consecutive
\* Write calls are those it emits for one Write of the whole input.
C28_Restartable ==
    lwPc = "done" /\ ~SingleWrite.panic => out = SingleWrite.out

\* ---------------------------------------------------------------------------
\* Concurrent sends and the header buffer pool (send.go, send and
\* flattenHeader). Every goroutine runs send once, on a Sender and a message
\* of its own; the goroutines share nothing but the pool of getBuffer and
\* putBuffer. A step of a goroutine is one call it makes, so that the calls of
\* two goroutines interleave in every order.
\* ---------------------------------------------------------------------------

\* The goroutines that run send.
MaxGoroutines == 2

\* The fields flattenHeader writes for a message (Bcc apart).
HeaderFields == 2

\* The longest body, in bytes.
MaxBody == 2

\* The capacity of the array of a buffer, in bytes: no header outgrows it, so
\* that a buffer keeps its array from one use to the next.
BufCap == 4

\* The buffers the pool makes at most.
MaxBufs == 2

\* A byte is named after the goroutine whose message it belongs to: the
\* header of g is its fields and the closing empty line, one byte each.
HeaderBytes(g) == [j \in 1..(HeaderFields + 1) |-> 10 * g + j]

BodyBytes(g, n) == [j \in 1..n |-> 10 * g + 5 + j]

\* The bytes of a slice of length n at the start of the array of buffer b.
SliceBytes(b, n) == SubSeq(buffers[b].data, 1, n)

\* buf.WriteString: the bytes go into the array from buf's length on.
WriteString(buf, bytes) ==
    [data |-> [k \in 1..BufCap |->
                  IF k > buf.len /\ k <= buf.len + Len(bytes)
                  THEN bytes[k - buf.len] ELSE buf.data[k]],
     len  |-> buf.len + Len(bytes)]

\* append(h, body...): in place, in the array of h, when its capacity holds
\* the body too, and in a new array otherwise.
appendInPlace(h, body) == h.len + Len(body) <= BufCap

\* The bytes a reader of mail reads.
MailBytes(m) == IF m.shared THEN SliceBytes(m.buf, m.len) ELSE m.bytes

NoSlice == [buf |-> 0, len |-> 0]

NoMail == [shared |-> FALSE, buf |-> 0, len |-> 0, bytes |-> <<>>]

Idle == [pc |-> "send", buf |-> 0, i |-> 0, h |-> NoSlice, body |-> <<>>,
         mail |-> NoMail, got |-> <<>>, err |-> FALSE]

\* send, up to the call of flattenHeader: msg.Export, getFrom and
\* getRecipients, which return an error for a message without sender or with
\* a malformed address.
sendExport(g) ==
    /\ sending[g].pc = "send"
    /\ \E ok \in BOOLEAN :
          sending' = [sending EXCEPT ![g].pc = IF ok THEN "getBuffer" ELSE "done",
                                     ![g].err = ~ok]
    /\ UNCHANGED <<bufPool, buffers>>
    /\ UNCHANGED nonPoolVars

\* getBuffer: a buffer of the pool, or a new one (the pool is free to make one
\* whatever it holds).
getBuffer(g) ==
    /\ sending[g].pc = "getBuffer"
    /\ \/ \E b \in bufPool :
             /\ bufPool' = bufPool \ {b}
             /\ sending' = [sending EXCEPT ![g].pc = "write", ![g].buf = b,
                                           ![g].i = 0]
             /\ UNCHANGED buffers
       \/ /\ Len(buffers) < MaxBufs
          /\ buffers' = Append(buffers, [data |-> [k \in 1..BufCap |-> 0],
                                         len  |-> 0])
          /\ sending' = [sending EXCEPT ![g].pc = "write",
                                        ![g].buf = Len(buffers) + 1,
                                        ![g].i = 0]
          /\ UNCHANGED bufPool
    /\ UNCHANGED nonPoolVars

\* putBuffer: the buffer is emptied, which keeps its array, and goes back to
\* the pool.
putBuffer(b) ==
    /\ buffers' = [buffers EXCEPT ![b].len = 0]
    /\ bufPool' = bufPool \cup {b}

\* One turn of the loop of flattenHeader over the header, and the empty line
\* after the loop.
flattenHeaderWrite(g) ==
    /\ sending[g].pc = "write"
    /\ sending[g].i <= HeaderFields
    /\ buffers' = [buffers EXCEPT ![sending[g].buf] =
                      WriteString(@, <<HeaderBytes(g)[sending[g].i + 1]>>)]
    /\ sending' = [sending EXCEPT ![g].i = @ + 1]
    /\ UNCHANGED bufPool
    /\ UNCHANGED nonPoolVars

\* return buf.Bytes(), and the deferred putBuffer(buf): h is the start of the
\* array of the buffer that has just gone back to the pool.
flattenHeaderReturn(g) ==
    /\ sending[g].pc = "write"
    /\ sending[g].i = HeaderFields + 1
    /\ putBuffer(sending[g].buf)
    /\ sending' = [sending EXCEPT
                      ![g].pc = "ReadAll",
                      ![g].h = [buf |-> sending[g].buf,
                                len |-> buffers[sending[g].buf].len],
                      ![g].buf = 0]
    /\ UNCHANGED nonPoolVars

\* body, err := ioutil.ReadAll(message.Body)
sendReadAll(g) ==
    /\ sending[g].pc = "ReadAll"
    /\ \/ \E n \in 1..MaxBody :
             sending' = [sending EXCEPT ![g].pc = "append",
                                        ![g].body = BodyBytes(g, n)]
       \/ sending' = [sending EXCEPT ![g].pc = "done", ![g].err = TRUE]
    /\ UNCHANGED <<bufPool, buffers>>
    /\ UNCHANGED nonPoolVars

\* mail := bytes.NewReader(append(h, body...))
sendAppend(g) ==
    LET s == sending[g]
    IN  /\ s.pc = "append"
        /\ IF appendInPlace(s.h, s.body)
           THEN /\ buffers' = [buffers EXCEPT ![s.h.buf].data =
                                  WriteString([data |-> @, len |-> s.h.len],
                                              s.body).data]
                /\ sending' = [sending EXCEPT
                                  ![g].pc = "Send",
                                  ![g].mail = [shared |-> TRUE, buf |-> s.h.buf,
                                               len |-> s.h.len + Len(s.body),
                                               bytes |-> <<>>]]
           ELSE /\ sending' = [sending EXCEPT
                                  ![g].pc = "Send",
                                  ![g].mail = [shared |-> FALSE, buf |-> 0,
                                               len |-> 0,
                                               bytes |-> SliceBytes(s.h.buf, s.h.len)
                                                         \o s.body]]
                /\ UNCHANGED buffers
        /\ UNCHANGED bufPool
        /\ UNCHANGED nonPoolVars

\* s.Send(from, to, mail): the Sender reads mail to its end.
sendSenderSend(g) ==
    /\ sending[g].pc = "Send"
    /\ \E ok \in BOOLEAN :
          sending' = [sending EXCEPT ![g].pc = "done",
                                     ![g].got = MailBytes(sending[g].mail),
                                     ![g].err = ~ok]
    /\ UNCHANGED <<bufPool, buffers>>
    /\ UNCHANGED nonPoolVars

InitConcurrentSend ==
    /\ bufPool = {}
    /\ buffers = <<>>
    /\ sending = [g \in 1..MaxGoroutines |-> Idle]
    /\ SmtpOff
    /\ SendOff
    /\ MailerOff
    /\ DasOff
    /\ WriteOff
    /\ FileOff
    /\ LineOff
    /\ MsgOff
    /\ BuildOff
    /\ LoginOff

NextConcurrentSend ==
    \E g \in 1..MaxGoroutines :
        \/ sendExport(g)
        \/ getBuffer(g)
        \/ flattenHeaderWrite(g)
        \/ flattenHeaderReturn(g)
        \/ sendReadAll(g)
        \/ sendAppend(g)
        \/ sendSenderSend(g)

SpecConcurrentSend == InitConcurrentSend /\ [][NextConcurrentSend]_vars

\* C29: under every interleaving of two sends, the bytes of the h that
\* flattenHeader returned to a send are the header of its own message until
\* the send has handed mail to its Sender, and mail is then that header
\* followed by the body of the send.
C29_PoolNoInterference ==
    \A g \in DOMAIN sending :
        /\ sending[g].pc \in {"ReadAll", "append"} =>
              SliceBytes(sending[g].h.buf, sending[g].h.len) = HeaderBytes(g)
        /\ sending[g].pc = "Send" =>
              MailBytes(sending[g].mail) = HeaderBytes(g) \o sending[g].body

\* ---------------------------------------------------------------------------
\* The part list of a Message: SetBody, AddAlternative and
\* AddAlternativeWriter (message.go), GetBodyWriter (gomail.go), Reset.
\* ---------------------------------------------------------------------------

\* The parts a message is given at most.
MaxPartList == 3

ContentTypes == {"text/plain", "text/html"}

\* A part: its content type and its body, a string, the function f given to
\* AddAlternativeWriter, or the buffer GetBodyWriter returns.
NewPart(contentType, body) == [contentType |-> contentType, body |-> body]

\* What a call does to the variables other than parts.
Called(fn, contentType) ==
    /\ partsBefore' = parts
    /\ lastCall' = [fn |-> fn, contentType |-> contentType]
    /\ UNCHANGED api
    /\ UNCHANGED nonMsgVars

\* m.parts = []part{{...}}
SetBody ==
    \E contentType \in ContentTypes :
        /\ parts' = <<NewPart(contentType, "string")>>
        /\ Called("SetBody", contentType)

\* m.parts = append(m.parts, part{...})
AddAlternative ==
    \E contentType \in ContentTypes :
        /\ Len(parts) < MaxPartList
        /\ parts' = Append(parts, NewPart(contentType, "string"))
        /\ Called("AddAlternative", contentType)

\* m.parts = []part{{..., copier: f}}
AddAlternativeWriter ==
    \E contentType \in ContentTypes :
        /\ api = "message.go"
        /\ parts' = <<NewPart(contentType, "f")>>
        /\ Called("AddAlternativeWriter", contentType)

\* msg.parts = append(msg.parts, part{..., body: buf})
GetBodyWriter ==
    \E contentType \in ContentTypes :
        /\ api = "gomail.go"
        /\ Len(parts) < MaxPartList
        /\ parts' = Append(parts, NewPart(contentType, "buffer"))
        /\ Called("GetBodyWriter", contentType)

\* A Reset that keeps the embedded files.
ResetKeepsEmbedded ==
    /\ api = "message.go"
    /\ parts' = <<>>
    /\ partsBefore' = parts
    /\ lastCall' = [fn |-> "Reset", contentType |-> ""]
    /\ mHeader' = {}
    /\ mAttachments' = [arr |-> 0, len |-> 0]
    /\ UNCHANGED <<api, arrays, mEmbedded, mSettings, mBefore, made>>
    /\ UNCHANGED nonMessageVars

\* Reset: every field of m.header is deleted, and m.parts, m.attachments and
\* m.embedded are nil.
Reset ==
    /\ api = "message.go"
    /\ parts' = <<>>
    /\ partsBefore' = parts
    /\ lastCall' = [fn |-> "Reset", contentType |-> ""]
    /\ mHeader' = {}
    /\ mAttachments' = [arr |-> 0, len |-> 0]
    /\ mEmbedded' = [arr |-> 0, len |-> 0]
    /\ UNCHANGED <<api, arrays, mSettings, mBefore, made>>
    /\ UNCHANGED nonMessageVars

InitMessageParts ==
    /\ api \in {"message.go", "gomail.go"}
    /\ parts = <<>>
    /\ partsBefore = <<>>
    /\ lastCall = [fn |-> "NewMessage", contentType |-> ""]
    /\ SmtpOff
    /\ SendOff
    /\ MailerOff
    /\ DasOff
    /\ WriteOff
    /\ FileOff
    /\ LineOff
    /\ PoolOff
    /\ BuildOff
    /\ LoginOff

NextMessageParts ==
    \/ SetBody
    \/ AddAlternative
    \/ AddAlternativeWriter
    \/ GetBodyWriter
    \/ Reset

SpecMessageParts == InitMessageParts /\ [][NextMessageParts]_vars

\* C30: after AddAlternativeWriter the part list is the part list of before
\* the call followed by the new part.
C30_AddAlternativeWriterAppends ==
    lastCall.fn = "AddAlternativeWriter" =>
        parts = Append(partsBefore, NewPart(lastCall.contentType, "f"))

\* ---------------------------------------------------------------------------
\* The whole Message of message.go (lines 1-331): NewMessage with its
\* settings, the header, the part list, and the lists of attached and embedded
\* files, which are Go slices: a list is an array and a length, and two lists
\* may share an array.
\* ---------------------------------------------------------------------------

\* The files a message is given at most.
MaxFileCalls == 2

\* The settings given to NewMessage: none, or one of SetCharset and
\* SetEncoding.
MessageSettings ==
    {[set |-> "charset", to |-> "ISO-8859-1"],
     [set |-> "encoding", to |-> "base64"],
     [set |-> "encoding", to |-> "unencoded"]}

SettingLists == {<<>>} \cup {<<s>> : s \in MessageSettings}

NilSlice == [arr |-> 0, len |-> 0]

\* The files of a list, in order.
Files(list) ==
    IF list = NilSlice THEN <<>> ELSE SubSeq(arrays[list.arr], 1, list.len)

\* append(list, f): in place when the array of list has room after its
\* length, and otherwise into a new array of twice the capacity.
goAppend(list, f) ==
    IF list.len < Len(arrays[list.arr])
    THEN [list   |-> [arr |-> list.arr, len |-> list.len + 1],
          arrays |-> [arrays EXCEPT ![list.arr][list.len + 1] = f]]
    ELSE [list   |-> [arr |-> Len(arrays) + 1, len |-> list.len + 1],
          arrays |-> Append(arrays,
                        [k \in 1..(2 * Len(arrays[list.arr])) |->
                            IF k <= list.len THEN arrays[list.arr][k]
                            ELSE IF k = list.len + 1 THEN f ELSE 0])]

\* appendFile: the settings change f alone; a nil list becomes []*file{f}.
appendFile(list, f) ==
    IF list = NilSlice
    THEN [list   |-> [arr |-> Len(arrays) + 1, len |-> 1],
          arrays |-> Append(arrays, <<f>>)]
    ELSE goAppend(list, f)

appendOSFile(list, f) == appendFile(list, f)

appendReaderFile(list, f) == appendFile(list, f)

\* What a call on the file lists does to the other variables.
FileCall(fn, r) ==
    /\ api = "message.go"
    /\ made < MaxFileCalls
    /\ arrays' = r.arrays
    /\ made' = made + 1
    /\ mBefore' = [attachments |-> Files(mAttachments),
                   embedded |-> Files(mEmbedded)]
    /\ lastCall' = [fn |-> fn, contentType |-> ""]
    /\ UNCHANGED <<api, parts, partsBefore, mHeader, mSettings>>
    /\ UNCHANGED nonMessageVars

\* m.attachments = m.appendOSFile(m.attachments, filename, settings)
Attach ==
    LET r == appendOSFile(mAttachments, made + 1)
    IN  /\ FileCall("Attach", r)
        /\ mAttachments' = r.list
        /\ UNCHANGED mEmbedded

\* m.embedded = m.appendOSFile(m.embedded, filename, settings)
Embed ==
    LET r == appendOSFile(mEmbedded, made + 1)
    IN  /\ FileCall("Embed", r)
        /\ mEmbedded' = r.list
        /\ UNCHANGED mAttachments

\* m.attachments = m.appendReaderFile(m.attachments, filename, r, settings)
AttachWithReader ==
    LET r == appendReaderFile(mAttachments, made + 1)
    IN  /\ FileCall("AttachWithReader", r)
        /\ mAttachments' = r.list
        /\ UNCHANGED mEmbedded

\* m.embedded = m.appendReaderFile(m.attachments, filename, r, settings)
EmbedWithReader ==
    LET r == appendReaderFile(mAttachments, made + 1)
    IN  /\ FileCall("EmbedWithReader", r)
        /\ mEmbedded' = r.list
        /\ UNCHANGED mAttachments

\* m.header[field] = value
setField(field, value) ==
    /\ api = "message.go"
    /\ mHeader' = {f \in mHeader : f[1] # field} \cup {<<field, value>>}
    /\ UNCHANGED <<api, parts, partsBefore, arrays, mAttachments, mEmbedded,
                   mBefore, made>>
    /\ UNCHANGED nonMessageVars

\* SetHeader: the values are encoded with m.hEncoder and m.charset.
SetHeader ==
    /\ setField("Subject", <<mSettings.hEncoder, mSettings.charset, "value">>)
    /\ lastCall' = [fn |-> "SetHeader", contentType |-> ""]
    /\ UNCHANGED mSettings

\* SetAddressHeader: FormatAddress builds the address in m.buf and empties
\* m.buf again.
SetAddressHeader ==
    /\ setField("From", <<mSettings.hEncoder, mSettings.charset, "address">>)
    /\ lastCall' = [fn |-> "SetAddressHeader", contentType |-> ""]
    /\ mSettings' = [mSettings EXCEPT !.buf = 0]

\* SetDateHeader: the date is not encoded.
SetDateHeader ==
    /\ setField("Date", <<"date">>)
    /\ lastCall' = [fn |-> "SetDateHeader", contentType |-> ""]
    /\ UNCHANGED mSettings

\* applySettings: every setting sets its field, in order.
RECURSIVE applySettings(_, _)
applySettings(m, settings) ==
    IF settings = <<>> THEN m
    ELSE applySettings(IF Head(settings).set = "charset"
                       THEN [m EXCEPT !.charset = Head(settings).to]
                       ELSE [m EXCEPT !.encoding = Head(settings).to],
                       Tail(settings))

\* NewMessage: the defaults, the settings, and the header encoder of the
\* encoding.
NewMessage(settings) ==
    LET m == applySettings([header      |-> {},
                            parts       |-> <<>>,
                            attachments |-> NilSlice,
                            embedded    |-> NilSlice,
                            charset     |-> "UTF-8",
                            encoding    |-> "qp",
                            hEncoder    |-> "nil",
                            buf         |-> 0], settings)
    IN  [m EXCEPT !.hEncoder = IF m.encoding = "base64" THEN "bEncoding"
                               ELSE "qEncoding"]

\* The message as it is.
TheMessage ==
    [header      |-> mHeader,
     parts       |-> parts,
     attachments |-> mAttachments,
     embedded    |-> mEmbedded,
     charset     |-> mSettings.charset,
     encoding    |-> mSettings.encoding,
     hEncoder    |-> mSettings.hEncoder,
     buf         |-> mSettings.buf]

InitMessage ==
    /\ api = "message.go"
    /\ parts = <<>>
    /\ partsBefore = <<>>
    /\ lastCall = [fn |-> "NewMessage", contentType |-> ""]
    /\ arrays = <<>>
    /\ \E settings \in SettingLists :
          /\ mSettings = [charset  |-> NewMessage(settings).charset,
                          encoding |-> NewMessage(settings).encoding,
                          hEncoder |-> NewMessage(settings).hEncoder,
                          buf      |-> NewMessage(settings).buf,
                          given    |-> settings]
          /\ mHeader = NewMessage(settings).header
          /\ mAttachments = NewMessage(settings).attachments
          /\ mEmbedded = NewMessage(settings).embedded
    /\ mBefore = [attachments |-> <<>>, embedded |-> <<>>]
    /\ made = 0
    /\ SmtpOff
    /\ SendOff
    /\ MailerOff
    /\ DasOff
    /\ WriteOff
    /\ FileOff
    /\ LineOff
    /\ PoolOff
    /\ LoginOff

\* AddAlternativeWriter, which sets the part list as SetBody does, is left to
\* SpecMessageParts.
NextMessage ==
    \/ SetBody
    \/ AddAlternative
    \/ SetHeader
    \/ SetAddressHeader
    \/ SetDateHeader
    \/ Attach
    \/ Embed
    \/ AttachWithReader
    \/ EmbedWithReader
    \/ Reset

SpecMessage == InitMessage /\ [][NextMessage]_vars

\* C31: EmbedWithReader appends one file to the embedded list and changes
\* nothing else: the embedded files of before the call are kept, in order,
\* the new file follows them, and the attachments are those of before.
C31_EmbedWithReaderAppends ==
    lastCall.fn = "EmbedWithReader" =>
        /\ Files(mEmbedded) = Append(mBefore.embedded, made)
        /\ Files(mAttachments) = mBefore.attachments

\* C32: after Reset the message is the one NewMessage returns for the
\* settings the message was made with.
C32_ResetIsNewMessage ==
    lastCall.fn = "Reset" =>
        TheMessage = NewMessage(mSettings.given)

\* A Reset of a message that had a header, a body, an attachment and an
\* embedded file.
C32_Witness ==
    /\ lastCall.fn = "Reset"
    /\ partsBefore # <<>>
    /\ made >= 2
    /\ \E a \in 1..Len(arrays) : \E k \in 1..Len(arrays[a]) : arrays[a][k] # 0

\* ---------------------------------------------------------------------------
\* The LOGIN mechanism (login.go and auth.go): loginAuth.Start and
\* loginAuth.Next, called as smtp.Client.Auth calls them: Start once, then Next
\* for every answer of the server, until the server has no more to ask or a
\* call fails. A challenge is a sequence of characters, so that trimming and
\* lowering are computed.
\* ---------------------------------------------------------------------------

\* The challenges of one exchange at most.
MaxChallenges == 3

testUser == <<"u", "s", "e", "r">>

testPwd == <<"p", "w", "d">>

testHost == "smtp.example.com"

Challenges ==
    {<<"U", "s", "e", "r", "n", "a", "m", "e", ":">>,
     <<"P", "a", "s", "s", "w", "o", "r", "d", ":">>,
     <<"u", "s", "e", "r", "n", "a", "m", "e">>,
     <<"P", "A", "S", "S", "W", "O", "R", "D", ":">>,
     <<"P", "a", "s", "s", "w", "o", "r", "d", ":", ":">>,
     <<" ", "U", "s", "e", "r", "n", "a", "m", "e", ":", " ">>,
     <<"R", "e", "a", "l", "m", ":">>,
     <<>>}

\* strings.ToLower, on the letters of the challenges.
Lower(c) ==
    CASE c = "A" -> "a" [] c = "D" -> "d" [] c = "O" -> "o" [] c = "P" -> "p"
      [] c = "R" -> "r" [] c = "S" -> "s" [] c = "U" -> "u" [] c = "W" -> "w"
      [] OTHER -> c

ToLower(str) == [k \in 1..Len(str) |-> Lower(str[k])]

\* strings.TrimSuffix: one suffix is removed, if str ends with it.
TrimSuffix(str, suffix) ==
    IF /\ Len(str) >= Len(suffix)
       /\ SubSeq(str, Len(str) - Len(suffix) + 1, Len(str)) = suffix
    THEN SubSeq(str, 1, Len(str) - Len(suffix))
    ELSE str

\* strings.TrimSpace
TrimSpace(str) ==
    LET inked == {k \in 1..Len(str) : str[k] # " "}
    IN  IF inked = {} THEN <<>>
        ELSE SubSeq(str, CHOOSE k \in inked : \A j \in inked : k <= j,
                         CHOOSE k \in inked : \A j \in inked : j <= k)

\* The command Next reads in the challenge.
command(impl, fromServer) ==
    IF impl = "login.go"
    THEN ToLower(TrimSuffix(fromServer, <<":">>))
    ELSE ToLower(TrimSuffix(TrimSpace(fromServer), <<":">>))

\* loginAuth.Start
loginAuthStart(server) ==
    IF ~server.TLS /\ "LOGIN" \notin server.Auth
    THEN [proto |-> "", toServer |-> <<>>, err |-> "unencrypted connection"]
    ELSE IF server.Name # testHost
    THEN [proto |-> "", toServer |-> <<>>, err |-> "wrong host name"]
    ELSE [proto |-> "LOGIN", toServer |-> <<>>, err |-> "nil"]

\* A Next that answers the challenge whether or not more is expected.
loginAuthNextIgnoresMore(impl, fromServer, more) ==
    IF command(impl, fromServer) = <<"u", "s", "e", "r", "n", "a", "m", "e">>
    THEN [toServer |-> testUser, err |-> "nil"]
    ELSE IF command(impl, fromServer) = <<"p", "a", "s", "s", "w", "o", "r", "d">>
    THEN [toServer |-> testPwd, err |-> "nil"]
    ELSE IF ~more THEN [toServer |-> <<>>, err |-> "nil"]
    ELSE [toServer |-> <<>>, err |-> "unexpected server challenge"]

\* loginAuth.Next
loginAuthNext(impl, fromServer, more) ==
    IF ~more THEN [toServer |-> <<>>, err |-> "nil"]
    ELSE IF command(impl, fromServer) = <<"u", "s", "e", "r", "n", "a", "m", "e">>
    THEN [toServer |-> testUser, err |-> "nil"]
    ELSE IF command(impl, fromServer) = <<"p", "a", "s", "s", "w", "o", "r", "d">>
    THEN [toServer |-> testPwd, err |-> "nil"]
    ELSE [toServer |-> <<>>, err |-> "unexpected server challenge"]

\* The client calls Start.
loginStart ==
    /\ laPc = "Start"
    /\ laTrace' = Append(laTrace,
                      [call |-> "Start", fromServer |-> <<>>, more |-> FALSE,
                       proto |-> loginAuthStart(laServer).proto,
                       toServer |-> loginAuthStart(laServer).toServer,
                       err |-> loginAuthStart(laServer).err])
    /\ laPc' = IF loginAuthStart(laServer).err = "nil" THEN "Next" ELSE "failed"
    /\ UNCHANGED <<laImpl, laServer>>
    /\ UNCHANGED nonLoginVars

\* The server answers and the client calls Next: with a challenge and more
\* when the server asks on, with more false when it accepts.
loginNext ==
    /\ laPc = "Next"
    /\ \E fromServer \in Challenges, more \in BOOLEAN :
          /\ more => Len(laTrace) <= MaxChallenges
          /\ laTrace' = Append(laTrace,
                            [call |-> "Next", fromServer |-> fromServer,
                             more |-> more, proto |-> "",
                             toServer |-> loginAuthNext(laImpl, fromServer, more).toServer,
                             err |-> loginAuthNext(laImpl, fromServer, more).err])
          /\ laPc' = IF loginAuthNext(laImpl, fromServer, more).err # "nil" THEN "failed"
                     ELSE IF more THEN "Next" ELSE "done"
    /\ UNCHANGED <<laImpl, laServer>>
    /\ UNCHANGED nonLoginVars

InitLoginAuth ==
    /\ laImpl \in {"login.go", "auth.go"}
    /\ laServer \in [Name : {testHost, "other.example.com"}, TLS : BOOLEAN,
                     Auth : {{}, {"LOGIN"}, {"PLAIN"}, {"PLAIN", "LOGIN"}}]
    /\ laPc = "Start"
    /\ laTrace = <<>>
    /\ SmtpOff
    /\ SendOff
    /\ MailerOff
    /\ DasOff
    /\ WriteOff
    /\ FileOff
    /\ LineOff
    /\ PoolOff
    /\ MsgOff
    /\ BuildOff

NextLoginAuth == loginStart \/ loginNext

SpecLoginAuth == InitLoginAuth /\ [][NextLoginAuth]_vars

Username == <<"U", "s", "e", "r", "n", "a", "m", "e", ":">>

Password == <<"P", "a", "s", "s", "w", "o", "r", "d", ":">>

\* What the mechanism does at Start, whatever the challenges: it fails
\* exactly for another server name or for a connection without TLS on which
\* LOGIN is not advertised, it then gives no mechanism and no response and is
\* not called again, and it otherwise gives LOGIN and an empty response.
StartAnswers(e) ==
    /\ e.err # "nil" <=>
          \/ laServer.Name # testHost
          \/ ~laServer.TLS /\ "LOGIN" \notin laServer.Auth
    /\ e.toServer = <<>>
    /\ e.proto = IF e.err = "nil" THEN "LOGIN" ELSE ""
    /\ e.err # "nil" => Len(laTrace) = 1

\* What Next does for a challenge, given the challenges that ask for the
\* username and those that ask for the password.
NextAnswers(e, forUser, forPassword) ==
    IF ~e.more THEN e.toServer = <<>> /\ e.err = "nil"
    ELSE IF e.fromServer \in forUser THEN e.toServer = testUser /\ e.err = "nil"
    ELSE IF e.fromServer \in forPassword
    THEN e.toServer = testPwd /\ e.err = "nil"
    ELSE e.toServer = <<>> /\ e.err # "nil"

\* C33 as stated: LOGIN and an empty response at Start, the username for
\* "Username:", the password for "Password:", an error for any other
\* challenge, nothing when no more is expected, and a Start that fails for
\* another host or for an unencrypted connection without LOGIN.
C33_LoginExchangeStated ==
    \A k \in 1..Len(laTrace) :
        IF laTrace[k].call = "Start" THEN StartAnswers(laTrace[k])
        ELSE NextAnswers(laTrace[k], {Username}, {Password})

\* C33, amended: as stated, but the challenges answered with the username
\* are those that read username once one trailing colon is removed and the
\* case is ignored, likewise for the password, and auth.go also removes the
\* white space around the challenge first; every other challenge is an error.
C33_LoginExchange ==
    \A k \in 1..Len(laTrace) :
        IF laTrace[k].call = "Start" THEN StartAnswers(laTrace[k])
        ELSE NextAnswers(laTrace[k],
                 {Username, <<"u", "s", "e", "r", "n", "a", "m", "e">>}
                     \cup (IF laImpl = "auth.go"
                           THEN {<<" ", "U", "s", "e", "r", "n", "a", "m", "e", ":", " ">>}
                           ELSE {}),
                 {Password, <<"P", "A", "S", "S", "W", "O", "R", "D", ":">>})

\* The exchange of the test, to its end, and an exchange in which a
\* challenge spelled otherwise was answered.
C33_Witness ==
    /\ laPc = "done"
    /\ Len(laTrace) = 4
    /\ laTrace[2].fromServer = <<"u", "s", "e", "r", "n", "a", "m", "e">>
    /\ laTrace[2].toServer = testUser
    /\ laTrace[3].fromServer = Password
    /\ laTrace[3].toServer = testPwd

====
